---- MODULE Spec2Model ----
(***************************************************************************)
(* frostgate-core: the decision engine of api/defend.py and the decisions  *)
(* table it appends to, together with the other writers of that table     *)
(* (api/main.py, api/ingest.py, api/dev_events.py) and its readers.        *)
(*                                                                         *)
(* Conventions                                                             *)
(*   - an optional Python value (x | None) is the tuple <<>> (None) or     *)
(*     <<x>>; a sha256 digest is the tuple <<"sha256", input string>>, so  *)
(*     the hash is injective on its input and never equal to None;         *)
(*   - a JSON scalar is a tagged record [t |-> type, v |-> text], so that  *)
(*     0, "0", "" and None stay distinct as they are in Python;            *)
(*   - a dict is a sequence of [k, v] pairs in insertion order;            *)
(*   - instants are whole seconds after 1970-01-01T00:00:00Z.              *)
(***************************************************************************)
EXTENDS Integers, Sequences, FiniteSets, TLC

VARIABLES
    mapping,      \* which DecisionRecord mapping the process runs with
    records,      \* table "decisions", in id order
    clock,        \* the database clock (server_default now())
    reqs,         \* the /defend requests in flight, one per worker
    resp,         \* the response last returned by /defend
    feed_cursor,  \* next_since_id last returned by /feed/live
    call,         \* the last call of a function: arguments and result
    change_requests,  \* _CHANGE_REQUESTS of api/governance.py, in creation order
    agent,        \* the agent's queue and backoff, and its last pass
    buckets       \* the token bucket of each rate-limit key, and the log

vars == <<mapping, records, clock, reqs, resp, feed_cursor, call,
         change_requests, agent, buckets>>

(***************************************************************************)
(* Bounds of the model                                                     *)
(***************************************************************************)
MaxRecords == 3
MaxClock == 2
MaxTimestamp == 1
MaxWorkers == 2

(***************************************************************************)
(* Optional values                                                         *)
(***************************************************************************)
None == <<>>
Some(x) == <<x>>
IsSome(o) == o # None
Val(o) == o[1]

Range(s) == {s[i] : i \in 1..Len(s)}

(***************************************************************************)
(* JSON scalars and dicts                                                  *)
(***************************************************************************)
JInt(s) == [t |-> "int", v |-> s]
JStr(s) == [t |-> "str", v |-> s]
JNone == [t |-> "none", v |-> ""]

\* Python truthiness of a scalar
Truthy(x) ==
    CASE x.t = "int" -> x.v # "0"
      [] x.t = "str" -> x.v # ""
      [] x.t = "bool" -> x.v = "true"
      [] OTHER -> FALSE

\* Python `a or b`
Or(a, b) == IF Truthy(a) THEN a ELSE b

\* dict.get(k): the value stored under k, None when k is no key
Get(d, k) ==
    IF \E i \in 1..Len(d) : d[i].k = k
    THEN d[CHOOSE i \in 1..Len(d) : d[i].k = k].v
    ELSE JNone

\* the decimal numerals the model's payloads use
Numerals == <<"0", "1", "4", "5", "9", "10", "12">>
NumeralValue(s) ==
    CASE s = "0" -> 0 [] s = "1" -> 1 [] s = "4" -> 4 [] s = "5" -> 5
      [] s = "9" -> 9 [] s = "10" -> 10 [] s = "12" -> 12 [] OTHER -> 0
IsNumeral(s) == s \in Range(Numerals)

\* int(raw) inside try/except: <<n>> on success, None when int() raises
IntOf(x) ==
    CASE x.t = "int" -> Some(NumeralValue(x.v))
      [] x.t = "bool" -> Some(IF x.v = "true" THEN 1 ELSE 0)
      [] x.t = "str" -> IF IsNumeral(x.v) THEN Some(NumeralValue(x.v)) ELSE None
      [] OTHER -> None

\* str(v)
StrOf(x) ==
    CASE x.t = "bool" -> (IF x.v = "true" THEN "True" ELSE "False")
      [] x.t = "none" -> "None"
      [] OTHER -> x.v

\* json.dumps of one scalar
JsonScalar(x) ==
    CASE x.t = "str" -> "\"" \o x.v \o "\""
      [] x.t = "none" -> "null"
      [] OTHER -> x.v

\* the keys of the model's payloads, in the order sort_keys=True puts them
KeyOrder == <<"attempts", "event_type", "fail_count", "failed_attempts",
              "failed_auths", "failures", "ip", "remote_ip", "source_ip",
              "source_ip_addr", "src_ip">>

RECURSIVE JsonMembers(_, _)
JsonMembers(d, i) ==
    IF i > Len(KeyOrder) THEN <<>>
    ELSE LET k == KeyOrder[i]
             rest == JsonMembers(d, i + 1)
         IN IF \E j \in 1..Len(d) : d[j].k = k
            THEN <<"\"" \o k \o "\":" \o JsonScalar(Get(d, k))>> \o rest
            ELSE rest

RECURSIVE JoinWith(_, _)
JoinWith(parts, sep) ==
    IF parts = <<>> THEN ""
    ELSE IF Len(parts) = 1 THEN parts[1]
    ELSE parts[1] \o sep \o JoinWith(Tail(parts), sep)

\* json.dumps without sort_keys: the members in insertion order
_canonical_json_unsorted(d) ==
    "{" \o JoinWith([i \in 1..Len(d) |->
                        "\"" \o d[i].k \o "\":" \o JsonScalar(d[i].v)], ",")
        \o "}"

\* json.dumps(obj, sort_keys=True, separators=(",", ":")) of a flat dict
_canonical_json(d) == "{" \o JoinWith(JsonMembers(d, 1), ",") \o "}"

(***************************************************************************)
(* Time                                                                    *)
(***************************************************************************)
\* dt.astimezone(utc).isoformat().replace("+00:00", "Z")
_iso(t) == "1970-01-01T00:00:0" \o ToString(t) \o "Z"

_sha256_hex(s) == <<"sha256", s>>

(***************************************************************************)
(* Normalisation of a request (api/defend.py)                              *)
(*                                                                         *)
(* A request is [tenant_id, source, timestamp, payload]: TelemetryInput of *)
(* api/schemas.py, which has no event_type and no event attribute, so the  *)
(* getattr(req, "event_type"/"event", None) of the helpers give None.      *)
(***************************************************************************)
_coerce_event_type(req) ==
    LET et == Get(req.payload, "event_type")     \* payload.get("event_type")
        s == IF Truthy(et) THEN et.v ELSE ""     \* (et or "").strip()
    IN IF s # "" THEN s ELSE "unknown"

_coerce_event_payload(req) ==
    IF req.payload # <<>> THEN req.payload ELSE <<>>

_normalize_ip(payload) ==
    LET v == Or(Get(payload, "src_ip"),
             Or(Get(payload, "source_ip"),
             Or(Get(payload, "source_ip_addr"),
             Or(Get(payload, "ip"), Get(payload, "remote_ip")))))
    IN IF v.t = "none" THEN None
       ELSE IF StrOf(v) # "" THEN Some(StrOf(v)) ELSE None

_normalize_failed_auths(payload) ==
    LET raw == Or(Get(payload, "failed_auths"),
               Or(Get(payload, "fail_count"),
               Or(Get(payload, "failures"),
               Or(Get(payload, "attempts"),
               Or(Get(payload, "failed_attempts"), JInt("0"))))))
    IN IF IsSome(IntOf(raw)) THEN Val(IntOf(raw)) ELSE 0

\* raw = f"{tenant_id}|{source}|{ts}|{et}|{canonical_json(body)}"
EventIdRaw(req) ==
    req.tenant_id \o "|" \o req.source \o "|" \o _iso(req.timestamp) \o "|"
        \o _coerce_event_type(req) \o "|"
        \o _canonical_json(_coerce_event_payload(req))

_event_id(req) == _sha256_hex(EventIdRaw(req))

(***************************************************************************)
(* Scoring (api/defend.py)                                                 *)
(***************************************************************************)
RULE_SCORES(r) ==
    CASE r = "rule:ssh_bruteforce" -> 90
      [] r = "rule:default_allow" -> 0
      [] OTHER -> 0

_threat_from_score(score) ==
    IF score >= 80 THEN "high"
    ELSE IF score >= 50 THEN "medium"
    ELSE IF score >= 20 THEN "low"
    ELSE "none"

RECURSIVE SumScores(_)
SumScores(rules) ==
    IF rules = <<>> THEN 0 ELSE RULE_SCORES(Head(rules)) + SumScores(Tail(rules))

BruteForceTypes == {"auth", "auth.bruteforce", "auth_attempt"}
BruteForceMin == 5

\* (threat_level, rules_triggered, mitigations, anomaly_score, score);
\* confidence and anomaly_score in hundredths
evaluate(req) ==
    LET et == _coerce_event_type(req)
        body == _coerce_event_payload(req)
        failed_auths == _normalize_failed_auths(body)
        src_ip == _normalize_ip(body)
        fires == et \in BruteForceTypes /\ failed_auths >= BruteForceMin
                 /\ IsSome(src_ip)
        rules == IF fires THEN <<"rule:ssh_bruteforce">>
                 ELSE <<"rule:default_allow">>
        mitigations ==
            IF fires
            THEN <<[action |-> "block_ip", target |-> Val(src_ip),
                    reason |-> ToString(failed_auths)
                               \o " failed auth attempts detected",
                    confidence |-> 92]>>
            ELSE <<>>
        score == SumScores(rules)
    IN [threat_level |-> _threat_from_score(score),
        rules_triggered |-> rules,
        mitigations |-> mitigations,
        anomaly_score |-> IF fires THEN 80 ELSE 10,
        score |-> score]

(***************************************************************************)
(* Decision diff (api/decision_diff.py)                                    *)
(***************************************************************************)
\* the rule identifiers of the repository, in the order sorted() puts them
RuleOrder == <<"anomaly:behavioral", "guardrail:ai_adversarial",
               "rule:auth_bruteforce", "rule:baseline", "rule:block_badness",
               "rule:default_allow", "rule:honeypot_access",
               "rule:impossible_travel", "rule:rate_limit",
               "rule:ssh_bruteforce">>

\* sorted(S) for a set S of rule identifiers
SortedRules(S) == SelectSeq(RuleOrder, LAMBDA r : r \in S)

\* a list of strings comes back unchanged from [str(i) for i in x]
_as_list(x) == x

\* a reader that looks for the score at the top level of the stored
\* response and finds none
snapshot_from_record_top_level_score(rec) ==
    [threat_level |-> rec.threat_level,
     rules_triggered |-> _as_list(rec.rules_triggered_json),
     score |-> None]

\* rec.rules_triggered_json and rec.response_json read back through
\* _maybe_load_json; score is response["explain"]["score"] when present
snapshot_from_record(rec) ==
    [threat_level |-> rec.threat_level,
     rules_triggered |-> _as_list(rec.rules_triggered_json),
     score |-> rec.response_json.explain_score]

snapshot_from_current(threat_level, rules_triggered, score) ==
    [threat_level |-> threat_level,
     rules_triggered |-> _as_list(rules_triggered),
     score |-> Some(score)]

NoChangeSummary == "No material change vs previous decision."

\* a diff that reports the rules that started firing and no others
RuleChanges_AddedOnly(added, removed) ==
    IF added # <<>>
    THEN <<[field |-> "rules_triggered", op |-> "added", values |-> added]>>
    ELSE <<>>

\* the entries appended for the rules: "if added: ..." and "if removed: ..."
RuleChanges(added, removed) ==
    (IF added # <<>>
     THEN <<[field |-> "rules_triggered", op |-> "added",
             values |-> added]>> ELSE <<>>)
    \o (IF removed # <<>>
        THEN <<[field |-> "rules_triggered", op |-> "removed",
                values |-> removed]>> ELSE <<>>)

\* prev is None or <<snapshot>>; the result is None or <<diff>>
compute_decision_diff(prev, curr) ==
    IF prev = None THEN None
    ELSE
    LET p == Val(prev)
        prev_score == p.score
        curr_score == curr.score
        delta == IF IsSome(prev_score) /\ IsSome(curr_score)
                 THEN Some(Val(curr_score) - Val(prev_score)) ELSE None
        score_changed == prev_score # curr_score
                         \/ (delta # None /\ delta # Some(0))
        prev_tl == p.threat_level
        curr_tl == curr.threat_level
        prev_rules == Range(p.rules_triggered)
        curr_rules == Range(curr.rules_triggered)
        added == SortedRules(curr_rules \ prev_rules)
        removed == SortedRules(prev_rules \ curr_rules)
        changes ==
            (IF score_changed
             THEN <<[field |-> "score", from |-> prev_score,
                     to |-> curr_score, delta |-> delta]>> ELSE <<>>)
            \o (IF prev_tl # curr_tl
                THEN <<[field |-> "threat_level", from |-> prev_tl,
                        to |-> curr_tl]>> ELSE <<>>)
            \o RuleChanges(added, removed)
        bits ==
            (IF prev_tl # curr_tl
             THEN <<"threat " \o prev_tl \o "→" \o curr_tl>> ELSE <<>>)
            \o (IF added # <<>>
                THEN <<"+" \o ToString(Len(added)) \o " rule(s)">> ELSE <<>>)
            \o (IF removed # <<>>
                THEN <<"-" \o ToString(Len(removed)) \o " rule(s)">> ELSE <<>>)
            \o (IF delta # None /\ delta # Some(0)
                THEN <<"score Δ" \o ToString(Val(delta))>> ELSE <<>>)
        summary == IF changes = <<>> THEN NoChangeSummary
                   ELSE IF bits # <<>> THEN JoinWith(bits, ", ")
                   ELSE "Decision changed."
    IN Some([changes |-> changes, prev |-> p, curr |-> curr,
             summary |-> summary])

(***************************************************************************)
(* Chain hash (api/defend.py)                                              *)
(***************************************************************************)
\* the dict of _hash_payload as json.dumps(sort_keys=True) lays it out:
\* created_at, event_id, event_type, rules_triggered, source, tenant_id,
\* threat_level.  created_at is the ISO text of the instant.
_hash_payload(event_id, created_at, tenant_id, source, event_type, threat_level, rules_triggered) ==
    <<_iso(created_at), event_id, event_type, rules_triggered, source,
      tenant_id, threat_level>>

\* sha256(f"{prev_hash or ''}:{blob}"): None and '' give the same prefix
_compute_chain_hash(prev_hash, payload) ==
    _sha256_hex(<<prev_hash, ":", payload>>)

\* The verification walk: from genesis, recompute each chain_hash from the
\* record's stored prev_hash and stored payload fields and compare it with
\* the stored value.  first_broken_index is the position (from 1) of the
\* first record that does not reproduce, None when all do.
verify_chain(recs) ==
    LET broken == {i \in 1..Len(recs) :
                      recs[i].chain_hash #
                          _compute_chain_hash(
                              recs[i].prev_hash,
                              _hash_payload(recs[i].event_id,
                                            recs[i].created_at,
                                            recs[i].tenant_id,
                                            recs[i].source,
                                            recs[i].event_type,
                                            recs[i].threat_level,
                                            recs[i].rules_triggered_json))}
    IN IF broken = {}
       THEN [ok |-> TRUE, first_broken_index |-> None]
       ELSE [ok |-> FALSE,
             first_broken_index |->
                 Some(CHOOSE i \in broken : \A j \in broken : i <= j)]

(***************************************************************************)
(* The decisions table (api/db_models.py) and the mapping the code probes  *)
(***************************************************************************)
\* The write path asks the DecisionRecord class at run time which columns
\* it has.  "legacy" is the mapping of api/db_models.py (no prev_hash, no
\* chain_hash, no decision_diff_json); "extended" is the mapping that
\* api/dev_events.py, api/forensics.py and the tests construct and read.
Mappings == {"legacy", "extended"}

\* hasattr(DecisionRecord, "prev_hash") and hasattr(DecisionRecord, "chain_hash")
_supports_chain_fields == mapping = "extended"

\* hasattr(DecisionRecord, "decision_diff_json")
HasDiffColumn == mapping = "extended"

\* event_id is mapped with index=True and without unique=True, and no index
\* the repository creates on decisions is unique: an insert of an event_id
\* that is already stored violates no constraint
EventIdUnique == FALSE

IntegrityViolation(recs, rec) ==
    EventIdUnique /\ \E i \in 1..Len(recs) : recs[i].event_id = rec.event_id

\* db.query(DecisionRecord).order_by(DecisionRecord.id.desc()).first()
LastRecord(recs) == IF recs = <<>> THEN None ELSE Some(recs[Len(recs)])

\* the same query filtered by tenant_id, source and event_type
LastByFingerprint(recs, tenant_id, source, event_type) ==
    LET hits == {i \in 1..Len(recs) :
                    /\ recs[i].tenant_id = tenant_id
                    /\ recs[i].source = source
                    /\ recs[i].event_type = event_type}
    IN IF hits = {} THEN None
       ELSE Some(recs[CHOOSE i \in hits : \A j \in hits : j <= i])

(***************************************************************************)
(* Requests of the model                                                   *)
(***************************************************************************)
Pair(k, v) == [k |-> k, v |-> v]

PayloadBrute == <<Pair("event_type", JStr("auth")),
                  Pair("src_ip", JStr("192.0.2.10")),
                  Pair("failed_auths", JInt("12"))>>
PayloadQuiet == <<Pair("event_type", JStr("auth")),
                  Pair("src_ip", JStr("192.0.2.10")),
                  Pair("failed_auths", JInt("1"))>>
PayloadDns == <<Pair("event_type", JStr("dns"))>>

Payloads == {PayloadBrute, PayloadQuiet, PayloadDns}
Timestamps == 1..MaxTimestamp

Requests == [tenant_id : {"t1"}, source : {"edge1"},
             timestamp : Timestamps, payload : Payloads]

Workers == 1..MaxWorkers

Idle == [pc |-> "idle", req |-> None, prev |-> None,
         decision_diff_obj |-> None, prev_hash |-> None]

InFlight == {w \in Workers : reqs[w].pc # "idle"}

(***************************************************************************)
(* POST /defend (api/defend.py): defend and _persist_decision_best_effort  *)
(***************************************************************************)
\* what defend returns for req; persisted records what the write path did
Response(w, req, persisted) ==
    LET d == evaluate(req)
    IN Some([worker |-> w,
             outcome |-> "returned",
             event_id |-> _event_id(req),
             threat_level |-> d.threat_level,
             rules_triggered |-> d.rules_triggered,
             score |-> d.score,
             persisted |-> persisted])

\* the DecisionRecord the write path adds for worker w at instant now
DefendRecord(w, now) ==
    LET r == reqs[w]
        req == Val(r.req)
        d == evaluate(req)
        event_type == _coerce_event_type(req)
        event_id == _event_id(req)
    IN [id |-> Len(records) + 1,
        created_at |-> now,
        tenant_id |-> req.tenant_id,
        source |-> req.source,
        event_id |-> event_id,
        event_type |-> event_type,
        threat_level |-> d.threat_level,
        rules_triggered_json |-> d.rules_triggered,
        request_json |-> [timestamp |-> Some(_iso(req.timestamp))],
        response_json |-> [explain_score |-> Some(d.score)],
        decision_diff_json |->
            IF HasDiffColumn THEN r.decision_diff_obj ELSE None,
        prev_hash |-> IF _supports_chain_fields THEN r.prev_hash ELSE None,
        chain_hash |->
            IF _supports_chain_fields
            THEN _compute_chain_hash(
                     r.prev_hash,
                     _hash_payload(event_id, req.timestamp, req.tenant_id,
                                   req.source, event_type, d.threat_level,
                                   d.rules_triggered))
            ELSE None]

\* defend up to the fingerprint lookup and the diff (lines 556-506); the
\* lookup may raise, which the inner except turns into "no diff"
DefendReceive(w, req) ==
    /\ reqs[w].pc = "idle"
    /\ Len(records) + Cardinality(InFlight) < MaxRecords
    /\ \E lookup_ok \in BOOLEAN :
         LET d == evaluate(req)
             prev == LastByFingerprint(records, req.tenant_id, req.source,
                                       _coerce_event_type(req))
             prev_snapshot == IF prev # None
                              THEN Some(snapshot_from_record(Val(prev)))
                              ELSE None
             curr_snapshot == snapshot_from_current(
                                  d.threat_level, d.rules_triggered, d.score)
         IN reqs' = [reqs EXCEPT ![w] =
                [pc |-> "diffed",
                 req |-> Some(req),
                 prev |-> IF lookup_ok THEN prev ELSE None,
                 decision_diff_obj |->
                     IF lookup_ok
                     THEN compute_decision_diff(prev_snapshot, curr_snapshot)
                     ELSE None,
                 prev_hash |-> None]]
    /\ UNCHANGED <<change_requests, agent, buckets, call, mapping, records, clock, resp, feed_cursor>>

\* a writer that links every record to nothing
DefendChainQuery_Genesis(w) ==
    /\ reqs[w].pc = "diffed"
    /\ reqs' = [reqs EXCEPT ![w].pc = "chained", ![w].prev_hash = None]
    /\ UNCHANGED <<change_requests, agent, buckets, call, mapping, records, clock, resp, feed_cursor>>

\* the read of the last record for prev_hash (lines 522-525); a failure
\* reaches the outer except: rollback, log, and defend returns the decision
DefendChainQuery(w) ==
    /\ reqs[w].pc = "diffed"
    /\ \E query_ok \in BOOLEAN :
         IF ~_supports_chain_fields \/ query_ok
         THEN /\ reqs' = [reqs EXCEPT ![w].pc = "chained",
                            ![w].prev_hash =
                                IF _supports_chain_fields
                                   /\ LastRecord(records) # None
                                THEN Val(LastRecord(records)).chain_hash
                                ELSE None]
              /\ UNCHANGED resp
         ELSE /\ reqs' = [reqs EXCEPT ![w] = Idle]
              /\ resp' = Response(w, Val(reqs[w].req), "failed")
    /\ UNCHANGED <<change_requests, agent, buckets, call, mapping, records, clock, feed_cursor>>

\* a writer that reads the last record again inside its commit
DefendCommit_Reread(w) ==
    /\ reqs[w].pc = "chained"
    /\ \E now \in clock..MaxClock :
         LET rec == DefendRecord(w, now)
             last_hash == IF LastRecord(records) # None
                          THEN Val(LastRecord(records)).chain_hash ELSE None
         IN /\ records' = Append(records,
                                 IF _supports_chain_fields
                                 THEN [rec EXCEPT !.prev_hash = last_hash]
                                 ELSE rec)
            /\ clock' = now
            /\ resp' = Response(w, Val(reqs[w].req), "committed")
    /\ reqs' = [reqs EXCEPT ![w] = Idle]
    /\ UNCHANGED <<change_requests, agent, buckets, call, mapping, feed_cursor>>

\* a writer whose except clause logs and raises again, as
\* persist_decision does
DefendCommit_Raises(w) ==
    /\ reqs[w].pc = "chained"
    /\ \E commit_ok \in BOOLEAN, now \in clock..MaxClock :
         IF commit_ok
         THEN /\ records' = Append(records, DefendRecord(w, now))
              /\ clock' = now
              /\ resp' = Response(w, Val(reqs[w].req), "committed")
         ELSE /\ UNCHANGED <<records, clock>>
              /\ resp' = Some([worker |-> w, outcome |-> "raised"])
    /\ reqs' = [reqs EXCEPT ![w] = Idle]
    /\ UNCHANGED <<change_requests, agent, buckets, call, mapping, feed_cursor>>

\* db.add(record); db.commit() and the two except clauses (lines 539-547)
DefendCommit(w) ==
    /\ reqs[w].pc = "chained"
    /\ \E commit_ok \in BOOLEAN, now \in clock..MaxClock :
         LET rec == DefendRecord(w, now)
         IN IF commit_ok /\ ~IntegrityViolation(records, rec)
            THEN /\ records' = Append(records, rec)
                 /\ clock' = now
                 /\ resp' = Response(w, Val(reqs[w].req), "committed")
            ELSE /\ UNCHANGED <<records, clock>>
                 /\ resp' = Response(w, Val(reqs[w].req),
                                     IF IntegrityViolation(records, rec)
                                     THEN "duplicate" ELSE "failed")
    /\ reqs' = [reqs EXCEPT ![w] = Idle]
    /\ UNCHANGED <<change_requests, agent, buckets, call, mapping, feed_cursor>>

(***************************************************************************)
(* POST /ingest (api/ingest.py) and the /defend of api/main.py: the same   *)
(* rules, heuristics and write, with a uuid4 as event_id                   *)
(***************************************************************************)
JTrue == [t |-> "bool", v |-> "true"]

\* str.startswith over the event types of the model
PrefixTable == {<<"auth", "auth">>, <<"auth.bruteforce", "auth">>,
                <<"auth.bruteforce", "auth.">>, <<"auth_attempt", "auth">>}
StartsWith(s, prefix) == <<s, prefix>> \in PrefixTable

\* int(event.get("attempts") or event.get("failed_auths") or 0), which is
\* not inside a try: None when int() raises
IngestAttempts(event) ==
    IntOf(Or(Get(event, "attempts"), Or(Get(event, "failed_auths"), JInt("0"))))

\* (threat, rules, mitigations) of _evaluate_rules; the caller has checked
\* that the attempts parse
_evaluate_rules(event_type, event) ==
    LET ip == Or(Get(event, "ip"), Get(event, "src_ip"))
        user == Or(Get(event, "username"),
                   Or(Get(event, "user"), JStr("user:unknown")))
        attempts == Val(IngestAttempts(event))
        brute == StartsWith(event_type, "auth") /\ attempts >= 5 /\ Truthy(ip)
        travel == Get(event, "impossible_travel") = JTrue
        honeypot == Get(event, "honeypot_touch") = JTrue
        rules == (IF brute THEN <<"rule:auth_bruteforce">> ELSE <<>>)
                 \o (IF travel THEN <<"rule:impossible_travel">> ELSE <<>>)
                 \o (IF honeypot THEN <<"rule:honeypot_access">> ELSE <<>>)
        mitigations ==
            (IF brute
             THEN <<[action |-> "block_ip", target |-> StrOf(ip),
                     reason |-> ToString(attempts) \o " auth failures detected",
                     confidence |-> 92]>> ELSE <<>>)
            \o (IF travel
                THEN <<[action |-> "step_up_auth", target |-> StrOf(user),
                        reason |-> "impossible travel detected",
                        confidence |-> 74]>> ELSE <<>>)
            \o (IF honeypot
                THEN <<[action |-> "block_ip",
                        target |-> IF Truthy(ip) THEN StrOf(ip)
                                   ELSE "network:unknown",
                        reason |-> "honeypot resource accessed",
                        confidence |-> 90]>> ELSE <<>>)
        threat == IF honeypot \/ brute THEN "high"
                  ELSE IF travel THEN "medium" ELSE "none"
    IN IF rules = <<>>
       THEN [threat |-> "low", rules |-> <<"rule:default_allow">>,
             mitigations |-> mitigations]
       ELSE [threat |-> threat, rules |-> rules, mitigations |-> mitigations]

Min(a, b) == IF a <= b THEN a ELSE b
Max(a, b) == IF a >= b THEN a ELSE b

\* in hundredths.  The events of the model carry no geo_distance_km and no
\* network_reputation, whose terms therefore add nothing.
_estimate_anomaly_score(event_type, event) ==
    LET attempts == Val(IngestAttempts(event))
        score == 5 + Min(attempts * 5, 50)
                 + (IF Get(event, "new_device") = JTrue THEN 15 ELSE 0)
                 + (IF Get(event, "impossible_travel") = JTrue THEN 20 ELSE 0)
                 + (IF StartsWith(event_type, "auth.")
                       \/ StartsWith(event_type, "iam.") THEN 5 ELSE 0)
    IN Max(0, Min(score, 100))

\* in hundredths: 15 for each suspicious marker found in a string value;
\* no value of the model's events contains one
_detect_ai_adversarial(event) == 0

\* the decision of the handler: rules, escalation and guardrail mitigations
IngestDecision(req) ==
    LET ev == req.event
        r == _evaluate_rules(req.event_type, ev)
        anomaly_score == _estimate_anomaly_score(req.event_type, ev)
        ai_adversarial_score == _detect_ai_adversarial(ev)
        max_signal == Max(anomaly_score, ai_adversarial_score)
        t0 == IF r.threat = "none" THEN "low" ELSE r.threat
        threat_level == IF max_signal >= 75 THEN "high"
                        ELSE IF max_signal >= 40 /\ t0 = "low" THEN "medium"
                        ELSE t0
        src_ip == Or(Get(ev, "ip"), Get(ev, "src_ip"))
        user == Or(Get(ev, "username"), Get(ev, "user"))
        rules1 == r.rules \o (IF ai_adversarial_score >= 45
                              THEN <<"guardrail:ai_adversarial">> ELSE <<>>)
        rules2 == rules1 \o (IF anomaly_score >= 40
                                /\ "anomaly:behavioral" \notin Range(rules1)
                             THEN <<"anomaly:behavioral">> ELSE <<>>)
        extra ==
            IF ai_adversarial_score >= 75 /\ Truthy(src_ip)
            THEN <<[action |-> "block_ip", target |-> StrOf(src_ip),
                    reason |-> "AI-adversarial payload patterns detected",
                    confidence |-> 70]>>
            ELSE IF ai_adversarial_score >= 45 /\ Truthy(user)
            THEN <<[action |-> "require_captcha", target |-> StrOf(user),
                    reason |-> "Potential prompt-injection / automation abuse detected",
                    confidence |-> 55]>>
            ELSE IF threat_level \in {"medium", "high"} /\ Truthy(src_ip)
            THEN <<[action |-> "throttle", target |-> StrOf(src_ip),
                    reason |-> "Elevated threat: apply throttling to reduce blast radius",
                    confidence |-> 55]>>
            ELSE <<>>
    IN [threat_level |-> threat_level, rules_triggered |-> rules2,
        mitigations |-> r.mitigations \o extra,
        anomaly_score |-> anomaly_score]

\* datetime.isoformat() of an aware UTC instant, as json_dumps writes it
IsoOffset(t) == "1970-01-01T00:00:0" \o ToString(t) \o "+00:00"

\* DecisionRecord.from_request_and_response(...): no chain fields, no diff,
\* and a response whose explain block has no score
IngestRecord(req, now) ==
    LET d == IngestDecision(req)
    IN [id |-> Len(records) + 1,
        created_at |-> now,
        tenant_id |-> req.tenant_id,
        source |-> req.source,
        event_id |-> <<"uuid4", Len(records) + 1>>,
        event_type |-> IF req.event_type # "" THEN req.event_type
                       ELSE "unknown",
        threat_level |-> d.threat_level,
        rules_triggered_json |-> d.rules_triggered,
        request_json |-> [timestamp |-> Some(IsoOffset(req.timestamp))],
        response_json |-> [explain_score |-> None],
        decision_diff_json |-> None,
        prev_hash |-> None,
        chain_hash |-> None]

EventBrute == <<Pair("src_ip", JStr("192.0.2.10")),
                Pair("failed_auths", JInt("12"))>>

IngestRequests == [tenant_id : {"t1"}, source : {"edge1"},
                   timestamp : Timestamps,
                   event_type : {"auth"},
                   event : {EventBrute, <<>>}]

\* the handler: an unparsable attempts value raises before anything is
\* written; a failed commit is rolled back and logged
IngestPersist(req) ==
    /\ Len(records) + Cardinality(InFlight) < MaxRecords
    /\ \E commit_ok \in BOOLEAN, now \in clock..MaxClock :
         IF IngestAttempts(req.event) # None /\ commit_ok
         THEN /\ records' = Append(records, IngestRecord(req, now))
              /\ clock' = now
         ELSE UNCHANGED <<records, clock>>
    /\ UNCHANGED <<change_requests, agent, buckets, call, mapping, reqs, resp, feed_cursor>>

Ingest(req) == IngestPersist(req)

MainDefend(req) == IngestPersist(req)

(***************************************************************************)
(* POST /dev/seed and /dev/emit (api/dev_events.py), with                  *)
(* FG_DEV_EVENTS_ENABLED=1                                                 *)
(***************************************************************************)
_mk_ip(i) == "10.0." \o ToString(i % 255) \o "." \o ToString((i * 7) % 255)

_score_from_threat(threat_level) ==
    IF threat_level \in {"critical", "high"} THEN 90
    ELSE IF threat_level = "medium" THEN 60
    ELSE IF threat_level = "low" THEN 30
    ELSE 0

_default_rules(threat_level, action_taken) ==
    <<IF threat_level # "none" THEN "rule:block_badness"
      ELSE "rule:default_allow",
      IF action_taken = "rate_limited" THEN "rule:rate_limit"
      ELSE "rule:baseline">>

\* datetime.isoformat() of a naive instant
IsoNaive(t) == "1970-01-01T00:00:0" \o ToString(t)

\* a seed is [stable_key (None for /dev/emit), kind, severity, threat_level,
\* action_taken, ip]; tenant_id is None or <<tenant>>
_make_record(id, now, seed, src, tenant_id, seed_tag) ==
    LET decision == IF seed.action_taken \in {"blocked", "quarantined"}
                    THEN "block" ELSE "allow"
        tenant_text == IF tenant_id = None THEN "None" ELSE Val(tenant_id)
        event_id ==
            IF seed.stable_key # None
            THEN _sha256_hex("seed|" \o Val(seed.stable_key))
            ELSE _sha256_hex(
                     seed.kind \o "|" \o src \o "|" \o tenant_text \o "|"
                     \o seed.severity \o "|" \o seed.threat_level \o "|"
                     \o seed.action_taken \o "|" \o seed.ip \o "|"
                     \o IsoNaive(now))
        diff == IF seed.threat_level # "none"
                THEN Some([changes |-> <<"threat_level", "decision">>,
                           prev |-> [threat_level |-> "none",
                                     decision |-> "allow"],
                           curr |-> [threat_level |-> seed.threat_level,
                                     decision |-> decision],
                           summary |-> seed_tag \o ": " \o seed.action_taken])
                ELSE None
    IN [id |-> id,
        created_at |-> now,
        tenant_id |-> tenant_text,
        source |-> src,
        event_id |-> event_id,
        event_type |-> seed.kind,
        threat_level |-> seed.threat_level,
        rules_triggered_json |->
            _default_rules(seed.threat_level, seed.action_taken),
        request_json |-> [timestamp |-> None],
        response_json |-> [explain_score |-> None],
        decision_diff_json |-> diff,
        prev_hash |-> None,
        chain_hash |-> None]

Seeds == <<[stable_key |-> Some("low_log_only"), kind |-> "info",
            severity |-> "info", threat_level |-> "low",
            action_taken |-> "log_only", ip |-> _mk_ip(1)],
           [stable_key |-> Some("high_blocked"), kind |-> "waf",
            severity |-> "high", threat_level |-> "high",
            action_taken |-> "blocked", ip |-> _mk_ip(2)],
           [stable_key |-> Some("medium_rate_limited"), kind |-> "edge_gw",
            severity |-> "medium", threat_level |-> "medium",
            action_taken |-> "rate_limited", ip |-> _mk_ip(3)]>>

\* the loop of dev_seed over seeds[i..]: a seed whose event_id is stored
\* is skipped, any other is added and flushed
RECURSIVE SeedLoop(_, _, _, _)
SeedLoop(recs, i, now, tenant_id) ==
    IF i > Len(Seeds) THEN recs
    ELSE LET rec == _make_record(Len(recs) + 1, now, Seeds[i], "dev_seed",
                                 tenant_id, "dev seed")
         IN IF \E j \in 1..Len(recs) : recs[j].event_id = rec.event_id
            THEN SeedLoop(recs, i + 1, now, tenant_id)
            ELSE SeedLoop(Append(recs, rec), i + 1, now, tenant_id)

\* DecisionRecord(decision_diff_json=...) is a TypeError under a mapping
\* without that attribute, and tenant_id None violates NOT NULL at the
\* flush: both leave the handler before its commit
DevWritable(tenant_id) == HasDiffColumn /\ tenant_id # None

\* a seeding that empties the table first
dev_seed_reset(tenant_id) ==
    /\ \E now \in clock..MaxClock :
         LET after == SeedLoop(<<>>, 1, now, tenant_id)
         IN /\ Len(after) + Cardinality(InFlight) <= MaxRecords
            /\ IF DevWritable(tenant_id)
               THEN records' = after /\ clock' = now
               ELSE UNCHANGED <<records, clock>>
    /\ UNCHANGED <<change_requests, agent, buckets, call, mapping, reqs, resp, feed_cursor>>

dev_seed(tenant_id) ==
    /\ \E now \in clock..MaxClock :
         LET after == SeedLoop(records, 1, now, tenant_id)
         IN /\ Len(after) + Cardinality(InFlight) <= MaxRecords
            /\ IF DevWritable(tenant_id)
               THEN records' = after /\ clock' = now
               ELSE UNCHANGED <<records, clock>>
    /\ UNCHANGED <<change_requests, agent, buckets, call, mapping, reqs, resp, feed_cursor>>

RECURSIVE EmitLoop(_, _, _, _, _, _)
EmitLoop(recs, i, count, now, seed, tenant_id) ==
    IF i >= count THEN recs
    ELSE EmitLoop(
             Append(recs,
                    _make_record(Len(recs) + 1, now,
                                 [seed EXCEPT !.ip = _mk_ip(i)],
                                 seed.kind, tenant_id, "dev emit")),
             i + 1, count, now, seed, tenant_id)

MaxEmitCount == 2

EmitSeeds == [stable_key : {None}, kind : {"auth_attempt"},
              severity : {"info"}, threat_level : {"none", "high"},
              action_taken : {"log_only"}, ip : {""}]

dev_emit(count, seed, tenant_id) ==
    /\ Len(records) + count + Cardinality(InFlight) <= MaxRecords
    /\ \E now \in clock..MaxClock :
         IF DevWritable(tenant_id)
         THEN /\ records' = EmitLoop(records, 0, count, now, seed, tenant_id)
              /\ clock' = now
         ELSE UNCHANGED <<records, clock>>
    /\ UNCHANGED <<change_requests, agent, buckets, call, mapping, reqs, resp, feed_cursor>>

(***************************************************************************)
(* GET /feed/live (api/feed.py), polled with the cursor it returned        *)
(***************************************************************************)
MaxFeedLimit == 2

FeedLive(limit) ==
    LET newer == {i \in 1..Len(records) : records[i].id > feed_cursor}
        rows == {i \in newer : Cardinality({j \in newer : j > i}) < limit}
        max_id == IF rows = {} THEN feed_cursor
                  ELSE CHOOSE m \in {records[i].id : i \in rows} :
                           \A i \in rows : records[i].id <= m
    IN /\ feed_cursor' = max_id
       /\ UNCHANGED <<change_requests, agent, buckets, call, mapping, records, clock, reqs, resp>>

(***************************************************************************)
(* Specifications                                                          *)
(***************************************************************************)
Init ==
    /\ mapping \in Mappings
    /\ records = <<>>
    /\ clock = 1
    /\ reqs = [w \in Workers |-> Idle]
    /\ resp = None
    /\ feed_cursor = 0
    /\ call = None
    /\ change_requests = <<>>
    /\ agent = None
    /\ buckets = None

Next ==
    \/ \E w \in Workers, req \in Requests : DefendReceive(w, req)
    \/ \E w \in Workers : DefendChainQuery(w)
    \/ \E w \in Workers : DefendCommit(w)
    \/ \E req \in IngestRequests : Ingest(req)
    \/ \E req \in IngestRequests : MainDefend(req)
    \/ \E tenant_id \in {None, Some("t1")} : dev_seed(tenant_id)
    \/ \E count \in 1..MaxEmitCount, seed \in EmitSeeds,
          tenant_id \in {None, Some("t1")} : dev_emit(count, seed, tenant_id)
    \/ \E limit \in 1..MaxFeedLimit : FeedLive(limit)

Spec == Init /\ [][Next]_vars

\* The audit chain writer alone, one request at a time
NextSeq ==
    \/ \E w \in Workers, req \in Requests :
          InFlight = {} /\ DefendReceive(w, req)
    \/ \E w \in Workers : DefendChainQuery(w)
    \/ \E w \in Workers : DefendCommit(w)

SpecSeq == Init /\ [][NextSeq]_vars

(***************************************************************************)
(* Properties                                                              *)
(***************************************************************************)
\* a record the write path of api/defend.py stored: the only writer whose
\* request snapshot carries the timestamp in the Z form of _iso
IsDefendRecord(rec) ==
    \E t \in Timestamps : rec.request_json.timestamp = Some(_iso(t))

\* C1: submitting the same envelope twice leaves exactly one stored record
\* with that event_id: no two stored records share an event_id.
C1_OneRecordPerEventId ==
    \A i, j \in 1..Len(records) :
        records[i].event_id = records[j].event_id => i = j

HashedFields == {"event_id", "created_at", "tenant_id", "source",
                 "event_type", "threat_level", "rules_triggered_json"}

Tampered(rec, f) ==
    IF f = "created_at" THEN [rec EXCEPT !.created_at = @ + 1]
    ELSE IF f = "rules_triggered_json"
    THEN [rec EXCEPT !.rules_triggered_json = Append(@, "rule:tampered")]
    ELSE IF f = "event_id"
    THEN [rec EXCEPT !.event_id = _sha256_hex("tampered")]
    ELSE [rec EXCEPT ![f] = @ \o "-tampered"]

C6_DecisionReturnedOnFailure ==
    [][\A w \in Workers :
          (reqs[w].pc # "idle" /\ reqs'[w].pc = "idle")
          => LET req == Val(reqs[w].req)
                 d == evaluate(req)
             IN /\ resp' # None
                /\ Val(resp').worker = w
                /\ Val(resp').outcome = "returned"
                /\ Val(resp').event_id = _event_id(req)
                /\ Val(resp').threat_level = d.threat_level
                /\ Val(resp').rules_triggered = d.rules_triggered
                /\ Val(resp').score = d.score
                /\ \/ records' = records
                   \/ \E now \in 1..MaxClock :
                        records' = Append(records, DefendRecord(w, now))
                /\ Val(resp').persisted # "committed" => records' = records
      ]_vars

\* a request whose write failed was answered with its decision
C6_FailedWriteAnswered ==
    /\ resp # None
    /\ Val(resp).outcome = "returned"
    /\ Val(resp).persisted = "failed"
    /\ Val(resp).threat_level = "high"

\* C7: stored records are append-only: every step of every operation keeps
\* each stored record, field by field, and only ever adds records at the end.
C7_AppendOnly ==
    [][/\ Len(records') >= Len(records)
       /\ \A i \in 1..Len(records) : records'[i] = records[i]]_vars

\* records of two writers are stored and the feed has read them
C7_GrownAndRead ==
    /\ Len(records) >= 2
    /\ feed_cursor = Len(records)
    /\ \E i, j \in 1..Len(records) :
         /\ i < j
         /\ ~IsDefendRecord(records[i])
         /\ IsDefendRecord(records[j])

\* C8: for every record the write path of api/defend.py stored, the stored
\* diff is null exactly when no earlier stored record has the same
\* (tenant_id, source, event_type), and otherwise is the diff against the
\* most recent earlier record with that fingerprint.
C8_DiffAgainstLatestAtInsert ==
    HasDiffColumn =>
        \A i \in 1..Len(records) :
            IsDefendRecord(records[i]) =>
                LET rec == records[i]
                    prev == LastByFingerprint(SubSeq(records, 1, i - 1),
                                              rec.tenant_id, rec.source,
                                              rec.event_type)
                IN rec.decision_diff_json =
                       IF prev = None THEN None
                       ELSE compute_decision_diff(
                                Some(snapshot_from_record(Val(prev))),
                                snapshot_from_current(
                                    rec.threat_level,
                                    rec.rules_triggered_json,
                                    Val(rec.response_json.explain_score)))

\* a record stored with a null diff after a record of its fingerprint
C8_NullDiffAfterSameFingerprint ==
    /\ HasDiffColumn
    /\ \E i, j \in 1..Len(records) :
         /\ i < j
         /\ IsDefendRecord(records[j])
         /\ records[j].decision_diff_json = None
         /\ records[i].tenant_id = records[j].tenant_id
         /\ records[i].source = records[j].source
         /\ records[i].event_type = records[j].event_type

\* the workers whose fingerprint lookup found a record and gave a diff
Diffed == {w \in Workers : /\ reqs[w].pc # "idle"
                           /\ reqs[w].prev # None
                           /\ reqs[w].decision_diff_obj # None}

ChangesOf(w) == Val(reqs[w].decision_diff_obj).changes

EntriesFor(w, f) == {e \in Range(ChangesOf(w)) : e.field = f}

PrevScore(w) == Val(reqs[w].prev).response_json.explain_score

PrevRules(w) == Range(Val(reqs[w].prev).rules_triggered_json)

CurrRules(w) == Range(evaluate(Val(reqs[w].req)).rules_triggered)

SameAsLatest(w) ==
    LET p == Val(reqs[w].prev)
        d == evaluate(Val(reqs[w].req))
    IN /\ p.threat_level = d.threat_level
       /\ p.response_json.explain_score = Some(d.score)
       /\ Range(p.rules_triggered_json) = Range(d.rules_triggered)

\* C10: a decision recorded for a fingerprint whose most recent stored
\* record has the same threat_level, score and set of rules gets a diff
\* that is not null, with no changes and the fixed non-empty summary.
C10_NoChangeSentinel ==
    \A w \in Workers :
        (reqs[w].pc # "idle" /\ reqs[w].prev # None /\ SameAsLatest(w))
        => /\ reqs[w].decision_diff_obj # None
           /\ ChangesOf(w) = <<>>
           /\ Val(reqs[w].decision_diff_obj).summary = NoChangeSummary
           /\ NoChangeSummary # ""

\* a repeat of the decision the latest record of the fingerprint stores,
\* written by the same path, is being recorded
C10_RepeatDecision ==
    \E w \in Workers :
        /\ reqs[w].pc = "chained"
        /\ reqs[w].prev # None
        /\ IsDefendRecord(Val(reqs[w].prev))
        /\ SameAsLatest(w)
        /\ evaluate(Val(reqs[w].req)).threat_level = "high"

(***************************************************************************)
(* Event identity as a function (api/defend.py _event_id)                  *)
(***************************************************************************)
\* the stored state of a specification that only calls pure functions
NoStore ==
    /\ change_requests = <<>>
    /\ agent = None
    /\ buckets = None
    /\ mapping = "legacy"
    /\ records = <<>>
    /\ clock = 1
    /\ reqs = [w \in Workers |-> Idle]
    /\ resp = None
    /\ feed_cursor = 0

\* every insertion order of the items of dict d
Orders(d) ==
    {[i \in 1..Len(d) |-> d[f[i]]] : f \in Permutations(1..Len(d))}

MaxTenants == 2

Tenants == {"t" \o ToString(i) : i \in 1..MaxTenants}

Envelopes ==
    [tenant_id : Tenants, source : {"edge1"}, timestamp : Timestamps,
     payload : UNION {Orders(d) : d \in Payloads}]

\* agent/agent_main.py: the id the agent computes for an event it queues;
\* json.dumps(payload, sort_keys=True, separators=(",", ":")) writes a flat
\* dict of the model as _canonical_json does
deterministic_event_id(source, tenant_id, timestamp_iso, payload) ==
    _sha256_hex(tenant_id \o "|" \o source \o "|" \o timestamp_iso \o "|"
                \o _canonical_json(payload))

\* agent/app/agent_main.py: the id of the second agent, over a JSON object
\* with the 5-second bucket of the instant
deterministic_event_id_app(tenant_id, source, event_type, subject, ts, features) ==
    LET bucket == (ts \div 5) * 5
    IN _sha256_hex("{\"bucket\":" \o ToString(bucket)
                   \o ",\"event_type\":\"" \o event_type
                   \o "\",\"features\":" \o _canonical_json(features)
                   \o ",\"source\":\"" \o source
                   \o "\",\"subject\":\"" \o subject
                   \o "\",\"tenant_id\":\"" \o tenant_id \o "\"}")

\* two calls of _event_id, on envelopes a and b, and the ids the two
\* agents compute for a
EventIdCall(a, b) ==
    /\ call = None
    /\ call' = Some([fn |-> "_event_id", a |-> a, b |-> b,
                     id_a |-> _event_id(a), id_b |-> _event_id(b),
                     agent_a |-> deterministic_event_id(a.source, a.tenant_id,
                                     _iso(a.timestamp), a.payload),
                     app_a |-> deterministic_event_id_app(a.tenant_id,
                                   a.source, _coerce_event_type(a), a.source,
                                   a.timestamp, a.payload)])
    /\ UNCHANGED <<change_requests, agent, buckets, mapping, records, clock, reqs,
                 resp, feed_cursor>>

InitId == NoStore /\ call = None

NextId == \E a \in Envelopes, b \in Envelopes : EventIdCall(a, b)

SpecId == InitId /\ [][NextId]_vars

\* a and b agree on tenant, source, timestamp, event type and on the
\* feature map as a map (the same keys with the same values)
SameLogicalEvent(a, b) ==
    /\ a.tenant_id = b.tenant_id
    /\ a.source = b.source
    /\ a.timestamp = b.timestamp
    /\ _coerce_event_type(a) = _coerce_event_type(b)
    /\ Range(a.payload) = Range(b.payload)

BruteForceAliases == {"auth.brute_force", "auth.bruteforce",
                      "ssh.bruteforce", "bruteforce", "brute_force"}

_normalize_event_type(event_type) ==
    IF event_type \in BruteForceAliases THEN "auth.bruteforce"
    ELSE event_type

\* `needle in s` over the event types of the model
SubstringTable == {<<"auth.bruteforce", "bruteforce">>}
Contains(s, needle) == <<s, needle>> \in SubstringTable

\* _coerce_int: int(v), int(float(str(v))), the default 0 for None or when
\* the conversion raises
_coerce_int(v) == IF IsSome(IntOf(v)) THEN Val(IntOf(v)) ELSE 0

\* the event type _extract_payload_and_meta returns for a TelemetryInput,
\* which has no event_type attribute: payload["event_type"], then
\* payload["type"], then "unknown"
EngineEventType(req) ==
    LET v == Or(Get(req.payload, "event_type"),
                Or(Get(req.payload, "type"), JStr("unknown")))
    IN _normalize_event_type(StrOf(v))

evaluate_rules(telemetry) ==
    LET payload == telemetry.payload
        event_type == EngineEventType(telemetry)
        source_ip == Or(Get(payload, "src_ip"),
                     Or(Get(payload, "source_ip"),
                     Or(Get(payload, "ip"),
                     Or(Get(payload, "client_ip"), JStr("unknown")))))
        failed_auths ==
            _coerce_int(Or(Get(payload, "failed_auths"),
                        Or(Get(payload, "failed_attempts"),
                        Or(Get(payload, "attempts"),
                        Or(Get(payload, "count"),
                        Or(Get(payload, "failures"),
                        Or(Get(payload, "num_failures"),
                        Or(Get(payload, "failed_logins"), JInt("0")))))))))
        labelled == Contains(event_type, "bruteforce")
                    \/ Contains(event_type, "brute_force")
        is_bruteforce == labelled \/ failed_auths >= 10
        missing == labelled /\ failed_auths = 0
        brute == is_bruteforce /\ failed_auths >= 10
        llm == event_type = "suspicious_llm_usage"
        t1 == IF missing THEN "medium" ELSE "low"
        t2 == IF brute THEN "high" ELSE t1
        a1 == IF missing THEN 40 ELSE 0
    IN [threat_level |-> IF llm /\ t2 = "low" THEN "medium" ELSE t2,
        mitigations |->
            IF brute
            THEN <<[action |-> "block", target |-> StrOf(source_ip),
                    reason |-> ToString(failed_auths)
                               \o " failed auth attempts detected",
                    confidence |-> 92]>>
            ELSE <<>>,
        rules_triggered |->
            (IF missing THEN <<"rule:missing_failed_count">> ELSE <<>>)
            \o (IF brute THEN <<"rule:ssh_bruteforce">> ELSE <<>>)
            \o (IF llm THEN <<"rule:ai-assisted-attack">> ELSE <<>>),
        anomaly_score |-> IF brute THEN 80 ELSE a1,
        ai_adv_score |-> IF llm THEN 70 ELSE 0]

(***************************************************************************)
(* The evaluators as functions of the event                                *)
(***************************************************************************)
EvalEventTypes == {"auth", "auth.bruteforce", "dns"}

\* a count field is absent (None) or holds one of the numerals
EvalCounts == {None} \cup {Some(Numerals[i]) : i \in 1..Len(Numerals)}

EvalPayload(et, has_ip, failed_auths, attempts) ==
    <<Pair("event_type", JStr(et))>>
    \o (IF has_ip THEN <<Pair("src_ip", JStr("192.0.2.10"))>> ELSE <<>>)
    \o (IF failed_auths # None
        THEN <<Pair("failed_auths", JInt(Val(failed_auths)))>> ELSE <<>>)
    \o (IF attempts # None
        THEN <<Pair("attempts", JInt(Val(attempts)))>> ELSE <<>>)

EvalRequests ==
    {[tenant_id |-> "t1", source |-> "edge1", timestamp |-> 1,
      payload |-> EvalPayload(et, has_ip, fa, at)] :
        et \in EvalEventTypes, has_ip \in BOOLEAN, fa \in EvalCounts,
        at \in {None, Some("12")}}

\* evaluate of api/defend.py and evaluate_rules of engine/rules.py, each
\* called on a and on b, and _evaluate_rules of api/main.py called on the
\* event type and the payload of a
EvaluateCall(a, b) ==
    /\ call = None
    /\ call' = Some([fn |-> "evaluate", a |-> a, b |-> b,
                     defend_a |-> evaluate(a), defend_b |-> evaluate(b),
                     engine_a |-> evaluate_rules(a),
                     engine_b |-> evaluate_rules(b),
                     main_a |-> _evaluate_rules(_coerce_event_type(a),
                                                a.payload)])
    /\ UNCHANGED <<change_requests, agent, buckets, mapping, records, clock, reqs,
                 resp, feed_cursor>>

InitEval == NoStore /\ call = None

NextEval == \E a \in EvalRequests, b \in EvalRequests : EvaluateCall(a, b)

SpecEval == InitEval /\ [][NextEval]_vars

Evaluated == call # None /\ Val(call).fn = "evaluate"

\* none < low < medium < high < critical
ThreatRank(threat_level) ==
    CASE threat_level = "none" -> 0
      [] threat_level = "low" -> 1
      [] threat_level = "medium" -> 2
      [] threat_level = "high" -> 3
      [] threat_level = "critical" -> 4

\* the failed-auth count an event carries: the value of its failed_auths
\* field, 0 without one
FailedAuthField(req) ==
    IF \E i \in 1..Len(req.payload) : req.payload[i].k = "failed_auths"
    THEN NumeralValue(Get(req.payload, "failed_auths").v)
    ELSE 0

\* the items of the payload other than the failed-auth count
OtherFields(req) == {p \in Range(req.payload) : p.k # "failed_auths"}

\* a and b differ only in their failed-auth count, a's being the lower
CountRaised(a, b) ==
    /\ OtherFields(a) = OtherFields(b)
    /\ FailedAuthField(a) <= FailedAuthField(b)

\* C12: of two events that differ only in their failed-auth count, the one
\* with the higher count gets a score and a threat_level that are not lower,
\* from evaluate of api/defend.py and from evaluate_rules of engine/rules.py.
C12_Monotone ==
    (Evaluated /\ CountRaised(Val(call).a, Val(call).b))
        => /\ Val(call).defend_a.score <= Val(call).defend_b.score
           /\ ThreatRank(Val(call).defend_a.threat_level)
                  <= ThreatRank(Val(call).defend_b.threat_level)
           /\ ThreatRank(Val(call).engine_a.threat_level)
                  <= ThreatRank(Val(call).engine_b.threat_level)

\* a bruteforce-labelled event with count 0 is rated above the same event
\* with count 1 by engine/rules.py
C12_ZeroAboveOne ==
    /\ Evaluated
    /\ CountRaised(Val(call).a, Val(call).b)
    /\ FailedAuthField(Val(call).a) = 0
    /\ FailedAuthField(Val(call).b) = 1
    /\ Get(Val(call).a.payload, "attempts") = JNone
    /\ Val(call).engine_a.threat_level = "medium"
    /\ Val(call).engine_b.threat_level = "low"

\* events with no second count field: what api/defend.py computes for them
\* is monotone in the count
C12_DefendMonotoneSingleField ==
    (/\ Evaluated
     /\ CountRaised(Val(call).a, Val(call).b)
     /\ Get(Val(call).a.payload, "attempts") = JNone)
        => /\ Val(call).defend_a.score <= Val(call).defend_b.score
           /\ ThreatRank(Val(call).defend_a.threat_level)
                  <= ThreatRank(Val(call).defend_b.threat_level)

\* the event types the claims call auth-family
AuthFamily == {"auth", "auth.bruteforce", "auth_attempt"}

\* the payload names a source IP
HasSourceIp(req) == Truthy(Get(req.payload, "src_ip"))

\* the block_ip mitigations of a decision
BlockIps(mitigations) ==
    {i \in 1..Len(mitigations) : mitigations[i].action = "block_ip"}

\* what C13 asks of a decision d for event req, given the count the
\* evaluator read, its threshold and the id of its brute-force rule
BruteForceContract(req, d, et, count, threshold, rule) ==
    LET fires == rule \in Range(d.rules_triggered)
    IN /\ fires <=> (et \in AuthFamily /\ count >= threshold
                                       /\ HasSourceIp(req))
       /\ fires => /\ d.threat_level = "high"
                   /\ Cardinality(BlockIps(d.mitigations)) = 1
                   /\ \A i \in BlockIps(d.mitigations) :
                        d.mitigations[i].target
                            = Get(req.payload, "src_ip").v
       /\ count < threshold => (~fires /\ d.threat_level # "high")

EngineThreshold == 10

\* the count evaluate_rules reads, through its own alias chain
EngineCount(req) ==
    _coerce_int(Or(Get(req.payload, "failed_auths"),
                   Or(Get(req.payload, "attempts"), JInt("0"))))

\* C13: the brute-force rule fires exactly when the event type is
\* auth-family, the failed-auth count is at or above the threshold and a
\* source IP is present; then the threat level is high and there is one
\* block_ip mitigation targeting that IP; below the threshold the rule is
\* absent and the threat level is not high.  For evaluate of api/defend.py
\* and for evaluate_rules of engine/rules.py.
C13_BruteForceRule ==
    Evaluated =>
        /\ BruteForceContract(Val(call).a, Val(call).defend_a,
                              _coerce_event_type(Val(call).a),
                              _normalize_failed_auths(Val(call).a.payload),
                              BruteForceMin, "rule:ssh_bruteforce")
        /\ BruteForceContract(Val(call).a, Val(call).engine_a,
                              EngineEventType(Val(call).a),
                              EngineCount(Val(call).a),
                              EngineThreshold, "rule:ssh_bruteforce")

\* engine/rules.py fires its rule for an event that is not auth-family and
\* names no source IP
C13_EngineFiresWithoutIp ==
    /\ Evaluated
    /\ EngineEventType(Val(call).a) = "dns"
    /\ ~HasSourceIp(Val(call).a)
    /\ "rule:ssh_bruteforce" \in Range(Val(call).engine_a.rules_triggered)
    /\ Val(call).engine_a.mitigations[1].action = "block"
    /\ Val(call).engine_a.mitigations[1].target = "unknown"

\* the part of C13 about evaluate of api/defend.py
C13_DefendRule ==
    Evaluated =>
        BruteForceContract(Val(call).a, Val(call).defend_a,
                           _coerce_event_type(Val(call).a),
                           _normalize_failed_auths(Val(call).a.payload),
                           BruteForceMin, "rule:ssh_bruteforce")

\* the event declares a bruteforce-family type and carries a zero count or
\* no count in any field
MissingCount(req) ==
    /\ Get(req.payload, "event_type").v \in BruteForceAliases
    /\ FailedAuthField(req) = 0
    /\ Get(req.payload, "attempts") = JNone

DiagnosticOnly(d) ==
    /\ "rule:missing_failed_count" \in Range(d.rules_triggered)
    /\ "rule:default_allow" \notin Range(d.rules_triggered)
    /\ "rule:ssh_bruteforce" \notin Range(d.rules_triggered)

\* C14: an event with a bruteforce-family type and a zero or absent
\* failed-auth count triggers rule:missing_failed_count, and neither
\* rule:default_allow nor the brute-force rule, in evaluate_rules of
\* engine/rules.py and in evaluate of api/defend.py.
C14_MissingFailedCount ==
    (Evaluated /\ MissingCount(Val(call).a))
        => /\ DiagnosticOnly(Val(call).engine_a)
           /\ DiagnosticOnly(Val(call).defend_a)

\* api/defend.py passes such an event as a plain default-allow
C14_DefendPassesSilently ==
    /\ Evaluated
    /\ MissingCount(Val(call).a)
    /\ Val(call).defend_a.rules_triggered = <<"rule:default_allow">>
    /\ DiagnosticOnly(Val(call).engine_a)

\* the part of C14 about evaluate_rules of engine/rules.py
C14_EngineDiagnostic ==
    (Evaluated /\ MissingCount(Val(call).a))
        => DiagnosticOnly(Val(call).engine_a)

\* rules is not empty, and rule:default_allow is listed only alone
DefaultAllowContract(rules) ==
    /\ rules # <<>>
    /\ "rule:default_allow" \in Range(rules)
           => rules = <<"rule:default_allow">>

\* C15: rules_triggered of every decision is non-empty; when no detection
\* rule fires it is exactly [rule:default_allow], whose weight is 0 so the
\* score is 0; rule:default_allow is never listed with another rule.  For
\* evaluate of api/defend.py, evaluate_rules of engine/rules.py and
\* _evaluate_rules of api/main.py.
C15_DefaultAllow ==
    Evaluated =>
        /\ DefaultAllowContract(Val(call).defend_a.rules_triggered)
        /\ Val(call).defend_a.rules_triggered = <<"rule:default_allow">>
               => Val(call).defend_a.score = 0
        /\ RULE_SCORES("rule:default_allow") = 0
        /\ DefaultAllowContract(Val(call).main_a.rules)
        /\ DefaultAllowContract(Val(call).engine_a.rules_triggered)

\* engine/rules.py returns a decision with no rule at all
C15_EngineNoRule ==
    /\ Evaluated
    /\ Val(call).engine_a.rules_triggered = <<>>
    /\ Val(call).defend_a.rules_triggered = <<"rule:default_allow">>

\* the part of C15 about api/defend.py and api/main.py
C15_DefendAndMain ==
    Evaluated =>
        /\ DefaultAllowContract(Val(call).defend_a.rules_triggered)
        /\ Val(call).defend_a.rules_triggered = <<"rule:default_allow">>
               => Val(call).defend_a.score = 0
        /\ DefaultAllowContract(Val(call).main_a.rules)

(***************************************************************************)
(* Doctrine: _apply_doctrine of api/defend.py; apply_roe, estimate_impact  *)
(* and evaluate_with_doctrine of engine/                                   *)
(***************************************************************************)
\* api/schemas.py: the values of Persona and of ClassificationRing
Personas == {"guardian", "sentinel"}
Rings == {"PUBLIC", "INTERNAL", "CONFIDENTIAL", "SECRET"}

AnyBlockIp(ms) == \E i \in 1..Len(ms) : ms[i].action = "block_ip"

\* [m for m in out if m.action == "block_ip"] and its complement
OnlyBlockIp(ms) == SelectSeq(ms, LAMBDA m : m.action = "block_ip")
NotBlockIp(ms) == SelectSeq(ms, LAMBDA m : m.action # "block_ip")

\* the variant that never caps
_apply_doctrine_uncapped(persona, classification, mitigations) ==
    LET restricted == persona = Some("guardian")
                      /\ classification = Some("SECRET")
    IN [mitigations |-> mitigations,
        tie_d |-> [roe_applied |-> restricted,
                   disruption_limited |-> FALSE,
                   ao_required |-> restricted,
                   persona |-> persona,
                   classification |-> classification,
                   service_impact |-> IF AnyBlockIp(mitigations) THEN 35 ELSE 0,
                   user_impact |-> IF AnyBlockIp(mitigations) THEN 20 ELSE 0,
                   gating_decision |->
                       IF restricted /\ AnyBlockIp(mitigations)
                       THEN "require_approval" ELSE "allow"]]

\* the variant that caps for persona sentinel instead of guardian
_apply_doctrine_sentinel_capped(persona, classification, mitigations) ==
    LET capped == persona = Some("sentinel")
                  /\ Len(OnlyBlockIp(mitigations)) > 1
    IN [mitigations |-> IF capped
                        THEN <<OnlyBlockIp(mitigations)[1]>>
                             \o NotBlockIp(mitigations)
                        ELSE mitigations,
        tie_d |-> _apply_doctrine_uncapped(persona, classification,
                                           mitigations).tie_d]

\* persona and classification are None or <<value>> of the request's enum
\* fields; strip().lower() leaves every value of Persona as it is, and
\* strip().upper() every value of ClassificationRing.  Impacts in hundredths.
_apply_doctrine(persona, classification, mitigations) ==
    LET persona_v == persona
        class_v == classification
        restricted == persona_v = Some("guardian") /\ class_v = Some("SECRET")
        base_impact == IF AnyBlockIp(mitigations) THEN 35 ELSE 0
        base_user_impact == IF AnyBlockIp(mitigations) THEN 20 ELSE 0
        block_ips == OnlyBlockIp(mitigations)
        disruption_limited == restricted /\ Len(block_ips) > 1
        out == IF disruption_limited
               THEN <<block_ips[1]>> \o NotBlockIp(mitigations)
               ELSE mitigations
    IN [mitigations |-> out,
        tie_d |-> [roe_applied |-> restricted,
                   disruption_limited |-> disruption_limited,
                   ao_required |-> restricted,
                   persona |-> persona_v,
                   classification |-> class_v,
                   service_impact |->
                       IF disruption_limited THEN Max(0, base_impact - 10)
                       ELSE base_impact,
                   user_impact |->
                       IF disruption_limited THEN Max(0, base_user_impact - 5)
                       ELSE base_user_impact,
                   gating_decision |->
                       IF restricted /\ AnyBlockIp(out)
                       THEN "require_approval" ELSE "allow"]]

\* engine/tied.py, in thousandths; _clamp after each product
_clamp(v, hi) == Max(0, Min(hi, v))

estimate_impact(threat_level, classification, persona) ==
    LET base_service == CASE threat_level = "low" -> 2
                          [] threat_level = "medium" -> 5
                          [] threat_level = "high" -> 8
                          [] OTHER -> 3
        base_user == CASE threat_level = "low" -> 1
                       [] threat_level = "medium" -> 4
                       [] threat_level = "high" -> 7
                       [] OTHER -> 2
        ring_multiplier == IF classification = "SECRET" THEN 12 ELSE 10
        factor == IF persona = "guardian" THEN 11 ELSE 9
        service_impact ==
            _clamp(_clamp(base_service * ring_multiplier, 100) * factor, 1000)
        user_impact ==
            _clamp(_clamp(base_user * ring_multiplier, 100) * factor, 1000)
    IN [service_impact |-> service_impact,
        user_impact |-> user_impact,
        gating_decision |->
            IF service_impact < 400 /\ user_impact < 400 THEN "allow"
            ELSE IF service_impact < 700 /\ user_impact < 700
                 THEN "require_approval"
            ELSE "reject"]

\* engine/roe.py ROE_CONFIG["default"]
allowed_actions == {"block_ip", "flag_session"}
max_disruptive_actions_guardian == 1
max_disruptive_actions_sentinel == 3

\* the loop of apply_roe from mitigation i on; acc is
\* [filtered, disruptive_count, disruption_limited]
RECURSIVE RoeLoop(_, _, _, _)
RoeLoop(mitigations, i, max_disruptive, acc) ==
    IF i > Len(mitigations) THEN acc
    ELSE LET m == mitigations[i]
         IN IF m.action \notin allowed_actions
            THEN RoeLoop(mitigations, i + 1, max_disruptive, acc)
            ELSE IF m.action = "block_ip"
            THEN IF acc.disruptive_count + 1 > max_disruptive
                 THEN RoeLoop(mitigations, i + 1, max_disruptive,
                              [acc EXCEPT !.disruptive_count = @ + 1,
                                          !.disruption_limited = TRUE])
                 ELSE RoeLoop(mitigations, i + 1, max_disruptive,
                              [acc EXCEPT !.disruptive_count = @ + 1,
                                          !.filtered = Append(@, m)])
            ELSE RoeLoop(mitigations, i + 1, max_disruptive,
                         [acc EXCEPT !.filtered = Append(@, m)])

apply_roe(mitigations, persona, ring, tie_d) ==
    LET max_disruptive == IF persona = "guardian"
                          THEN max_disruptive_actions_guardian
                          ELSE max_disruptive_actions_sentinel
        r == RoeLoop(mitigations, 1, max_disruptive,
                     [filtered |-> <<>>, disruptive_count |-> 0,
                      disruption_limited |-> FALSE])
    IN [mitigations |-> r.filtered,
        disruption_limited |-> r.disruption_limited,
        ao_required |-> ring = "SECRET" /\ tie_d.gating_decision = "reject"]

\* persona and classification are the optional fields of the telemetry.
\* ClassificationRing has no member CUI, so the default of an absent
\* classification raises AttributeError.
evaluate_with_doctrine(persona, classification, base_threat_level, base_mitigations) ==
    IF classification = None
    THEN [raised |-> "AttributeError"]
    ELSE LET persona_d == IF persona = None THEN "guardian" ELSE Val(persona)
             ring == Val(classification)
             tie_d == estimate_impact(base_threat_level, ring, persona_d)
             roe_result == apply_roe(base_mitigations, persona_d, ring, tie_d)
         IN [raised |-> "",
             threat_level |-> base_threat_level,
             mitigations |-> roe_result.mitigations,
             explain |-> [persona |-> persona_d,
                          classification |-> ring,
                          tie_d |-> tie_d,
                          roe_applied |-> TRUE,
                          disruption_limited |-> roe_result.disruption_limited,
                          ao_required |-> roe_result.ao_required]]

MaxMitigations == 3

\* the mitigations the evaluators of the repository propose, on two targets
ProposedActions == {"block_ip", "flag_session", "step_up_auth"}
ProposedTargets == {"192.0.2.10", "192.0.2.11"}
Proposed ==
    [action : ProposedActions, target : ProposedTargets,
     reason : {"detected"}, confidence : {92}]
ProposedLists == UNION {[1..n -> Proposed] : n \in 0..MaxMitigations}

OptionalPersonas == {None} \cup {Some(p) : p \in Personas}
OptionalRings == {None} \cup {Some(c) : c \in Rings}
BaseThreatLevels == {"low", "medium", "high"}

\* one list of proposed mitigations gated by _apply_doctrine, by
\* evaluate_with_doctrine and (persona and ring given) by apply_roe; and,
\* for the comparison of the personas, by _apply_doctrine and apply_roe
\* under each persona with the same classification
DoctrineCall(persona, classification, threat_level, proposed) ==
    /\ call = None
    /\ call' = Some([fn |-> "doctrine",
                     persona |-> persona,
                     classification |-> classification,
                     threat_level |-> threat_level,
                     proposed |-> proposed,
                     defend |-> _apply_doctrine(persona, classification,
                                                proposed),
                     roe |-> IF persona # None /\ classification # None
                             THEN Some(apply_roe(proposed, Val(persona),
                                           Val(classification),
                                           estimate_impact(threat_level,
                                               Val(classification),
                                               Val(persona))))
                             ELSE None,
                     engine |-> evaluate_with_doctrine(persona, classification,
                                                       threat_level, proposed),
                     by_persona |->
                         [p \in Personas |->
                             [defend |-> _apply_doctrine(Some(p), classification,
                                                         proposed),
                              roe |-> IF classification = None THEN None
                                      ELSE Some(apply_roe(proposed, p,
                                                Val(classification),
                                                estimate_impact(threat_level,
                                                    Val(classification), p)))]]])
    /\ UNCHANGED <<change_requests, agent, buckets, mapping, records, clock, reqs,
                 resp, feed_cursor>>

InitDoctrine == NoStore /\ call = None

NextDoctrine ==
    \E persona \in OptionalPersonas, classification \in OptionalRings,
       threat_level \in BaseThreatLevels, proposed \in ProposedLists :
        DoctrineCall(persona, classification, threat_level, proposed)

SpecDoctrine == InitDoctrine /\ [][NextDoctrine]_vars

Gated == call # None /\ Val(call).fn = "doctrine"

\* guardian with the SECRET ring
Restricted ==
    /\ Gated
    /\ Val(call).persona = Some("guardian")
    /\ Val(call).classification = Some("SECRET")

CountBlockIp(ms) == Cardinality(BlockIps(ms))

\* C16: in the restricted state (persona guardian, classification SECRET)
\* the gated output holds at most one block_ip action, and
\* disruption_limited is true whenever more than one block_ip was proposed;
\* for _apply_doctrine of api/defend.py and apply_roe of engine/roe.py.
C16_AtMostOneBlockIp ==
    Restricted =>
        /\ CountBlockIp(Val(call).defend.mitigations) <= 1
        /\ CountBlockIp(Val(call).proposed) > 1
               => Val(call).defend.tie_d.disruption_limited
        /\ CountBlockIp(Val(Val(call).roe).mitigations) <= 1
        /\ CountBlockIp(Val(call).proposed) > 1
               => Val(Val(call).roe).disruption_limited

\* three block_ip mitigations were proposed in the restricted state and one
\* is left
C16_ThreeProposedOneLeft ==
    /\ Restricted
    /\ CountBlockIp(Val(call).proposed) = 3
    /\ CountBlockIp(Val(call).defend.mitigations) = 1
    /\ Val(call).defend.tie_d.disruption_limited
    /\ CountBlockIp(Val(Val(call).roe).mitigations) = 1
    /\ Val(Val(call).roe).disruption_limited

\* the position of the first block_ip of ms, 0 without one
FirstBlockIp(ms) ==
    IF BlockIps(ms) = {} THEN 0
    ELSE CHOOSE i \in BlockIps(ms) : \A j \in BlockIps(ms) : i <= j

\* what C17 asks of the gated list for the proposed one: the same length,
\* the first block_ip and every other action where they were, each further
\* block_ip replaced by a rate_limit on the same target with a
\* capped-by-doctrine reason
Downgraded(proposed, gated) ==
    /\ Len(gated) = Len(proposed)
    /\ \A i \in 1..Len(proposed) :
         IF i \in BlockIps(proposed) /\ i # FirstBlockIp(proposed)
         THEN /\ i <= Len(gated)
              /\ gated[i].action = "rate_limit"
              /\ gated[i].target = proposed[i].target
              /\ gated[i].reason = "capped by doctrine"
         ELSE i <= Len(gated) /\ gated[i] = proposed[i]

\* C17: in the restricted state capping keeps the first block_ip and
\* replaces each additional block_ip by a rate_limit action with a
\* capped-by-doctrine reason, so the gated list is as long as the proposed
\* one and the other mitigations keep their places; for _apply_doctrine of
\* api/defend.py and apply_roe of engine/roe.py.
C17_ExtrasDowngraded ==
    Restricted =>
        /\ Downgraded(Val(call).proposed, Val(call).defend.mitigations)
        /\ Downgraded(Val(call).proposed, Val(Val(call).roe).mitigations)

\* two block_ip mitigations were proposed in the restricted state; the
\* gated lists are one shorter and hold no rate_limit
C17_ExtraRemoved ==
    /\ Restricted
    /\ CountBlockIp(Val(call).proposed) = 2
    /\ Len(Val(call).proposed) = 2
    /\ Len(Val(call).defend.mitigations) = 1
    /\ Len(Val(Val(call).roe).mitigations) = 1
    /\ \A i \in 1..Len(Val(call).defend.mitigations) :
         Val(call).defend.mitigations[i].action # "rate_limit"

\* what the code does keep in the restricted state: the first block_ip, and
\* the other mitigations in their order (apply_roe: those it allows)
C17_FirstKeptOthersInOrder ==
    Restricted =>
        /\ OnlyBlockIp(Val(call).defend.mitigations)
               = SubSeq(OnlyBlockIp(Val(call).proposed), 1,
                        Min(1, CountBlockIp(Val(call).proposed)))
        /\ NotBlockIp(Val(call).defend.mitigations)
               = NotBlockIp(Val(call).proposed)
        /\ OnlyBlockIp(Val(Val(call).roe).mitigations)
               = SubSeq(OnlyBlockIp(Val(call).proposed), 1,
                        Min(1, CountBlockIp(Val(call).proposed)))
        /\ NotBlockIp(Val(Val(call).roe).mitigations)
               = SelectSeq(NotBlockIp(Val(call).proposed),
                           LAMBDA m : m.action \in allowed_actions)

Returned == Gated /\ Val(call).engine.raised = ""

\* C18: roe_applied is true whenever the restricted branch is entered
\* (guardian and SECRET), also when capping changes nothing; in the
\* unrestricted state the mitigations are returned unchanged and
\* roe_applied is not set; for _apply_doctrine of api/defend.py and
\* evaluate_with_doctrine of engine/__init__.py.
C18_RoeAppliedIffRestricted ==
    /\ Restricted
           => /\ Val(call).defend.tie_d.roe_applied
              /\ Val(call).engine.explain.roe_applied
    /\ (Gated /\ ~Restricted)
           => /\ Val(call).defend.mitigations = Val(call).proposed
              /\ ~Val(call).defend.tie_d.roe_applied
    /\ (Returned /\ ~Restricted)
           => /\ Val(call).engine.mitigations = Val(call).proposed
              /\ ~Val(call).engine.explain.roe_applied

\* evaluate_with_doctrine marks an ungated sentinel decision as gated
C18_EngineSetsRoeAppliedUnrestricted ==
    /\ Returned
    /\ Val(call).persona = Some("sentinel")
    /\ Val(call).classification = Some("PUBLIC")
    /\ Val(call).engine.mitigations = Val(call).proposed
    /\ Val(call).engine.explain.roe_applied
    /\ ~Val(call).defend.tie_d.roe_applied

\* the part of C18 about _apply_doctrine
C18_DefendRoeApplied ==
    /\ Restricted => Val(call).defend.tie_d.roe_applied
    /\ (Gated /\ ~Restricted)
           => /\ Val(call).defend.mitigations = Val(call).proposed
              /\ ~Val(call).defend.tie_d.roe_applied

\* the gating outcome of a decision of _apply_doctrine, apart from the
\* persona and classification it echoes
GatingOf(d) ==
    [mitigations |-> d.mitigations,
     roe_applied |-> d.tie_d.roe_applied,
     disruption_limited |-> d.tie_d.disruption_limited,
     ao_required |-> d.tie_d.ao_required,
     gating_decision |-> d.tie_d.gating_decision]

\* C19: a request without persona is gated like the same request with
\* persona guardian, and one without classification like the same request
\* with the lowest tier (PUBLIC); a request with no persona and
\* classification SECRET has its block_ip actions capped and roe_applied
\* true.
C19_AbsentMeansDefault ==
    /\ (Gated /\ Val(call).persona = None)
           => /\ GatingOf(Val(call).defend)
                    = GatingOf(_apply_doctrine(Some("guardian"),
                                   Val(call).classification,
                                   Val(call).proposed))
              /\ Val(call).classification = Some("SECRET")
                    => /\ Val(call).defend.tie_d.roe_applied
                       /\ CountBlockIp(Val(call).defend.mitigations) <= 1
    /\ (Gated /\ Val(call).classification = None)
           => /\ GatingOf(Val(call).defend)
                    = GatingOf(_apply_doctrine(Val(call).persona,
                                   Some("PUBLIC"), Val(call).proposed))
              /\ Val(call).engine.raised = ""

\* no persona, SECRET, two block_ip actions: _apply_doctrine gates nothing
C19_NoPersonaUngated ==
    /\ Gated
    /\ Val(call).persona = None
    /\ Val(call).classification = Some("SECRET")
    /\ CountBlockIp(Val(call).proposed) = 2
    /\ Val(call).defend.mitigations = Val(call).proposed
    /\ ~Val(call).defend.tie_d.roe_applied

\* evaluate_with_doctrine does default an absent persona to guardian
C19_EngineDefaultsPersona ==
    (Returned /\ Val(call).persona = None)
        => /\ Val(call).engine.explain.persona = "guardian"
           /\ Val(call).engine
                  = evaluate_with_doctrine(Some("guardian"),
                        Val(call).classification, Val(call).threat_level,
                        Val(call).proposed)

(***************************************************************************)
(* The evaluation boundary: evaluate of engine/evaluate.py, defend of      *)
(* api/defend.py and defend of api/main.py, with an unexpected exception   *)
(* raised at one site of the computation                                   *)
(***************************************************************************)
\* where the unexpected exception is raised: nowhere, inside the rule
\* computation, when its result is unpacked (the result has not the
\* expected shape), inside the doctrine and impact computation
Faults == {"none", "rules", "unpack", "impact"}

Propagated(exception) == [raised |-> exception]

Answered(threat_level, mitigations, rules, error) ==
    [raised |-> "", threat_level |-> threat_level,
     mitigations |-> mitigations, rules |-> rules, error |-> error]

\* engine/evaluate.py: _evaluate_rules(telemetry) is called outside the
\* try; only the unpacking of its result is guarded
EngineEvaluate(telemetry, fault) ==
    IF fault = "rules" THEN Propagated("Exception")
    ELSE IF fault = "unpack"
    THEN Answered("low", <<>>, <<>>, "Unexpected evaluate_rules return")
    ELSE LET r == evaluate_rules(telemetry)
         IN Answered(r.threat_level, r.mitigations, r.rules_triggered, "")

\* api/defend.py defend: evaluate(req), the unpacking of its result and
\* _apply_doctrine are called with no try around them
DefendEvaluate(req, persona, classification, fault) ==
    IF fault # "none" THEN Propagated("Exception")
    ELSE LET d == evaluate(req)
             g == _apply_doctrine(persona, classification, d.mitigations)
         IN Answered(d.threat_level, g.mitigations, d.rules_triggered, "")

\* api/main.py defend: _evaluate_rules and _estimate_anomaly_score are
\* called with no try around them; int() of a count that is no number
\* raises ValueError inside _evaluate_rules.  The handler has no impact
\* computation.
MainEvaluate(req, fault) ==
    IF fault \in {"rules", "unpack"} THEN Propagated("Exception")
    ELSE IF IngestAttempts(req.event) = None THEN Propagated("ValueError")
    ELSE LET d == IngestDecision(req)
         IN Answered(d.threat_level, d.mitigations, d.rules_triggered, "")

\* the events of EvalRequests with attempts absent, a number or no number
BoundaryAttempts == {<<>>, <<Pair("attempts", JInt("12"))>>,
                     <<Pair("attempts", JStr("abc"))>>}

BoundaryRequests ==
    {[tenant_id |-> "t1", source |-> "edge1", timestamp |-> 1,
      payload |-> EvalPayload(et, has_ip, fa, None) \o at] :
        et \in EvalEventTypes, has_ip \in BOOLEAN,
        fa \in {None, Some("0"), Some("5")}, at \in BoundaryAttempts}

\* the three boundaries called on one event with one fault
BoundaryCall(req, fault) ==
    /\ call = None
    /\ call' = Some([fn |-> "boundary", req |-> req, fault |-> fault,
                     engine |-> EngineEvaluate(req, fault),
                     defend |-> DefendEvaluate(req, None, None, fault),
                     main |-> MainEvaluate(
                                  [event_type |-> _coerce_event_type(req),
                                   event |-> req.payload], fault)])
    /\ UNCHANGED <<change_requests, agent, buckets, mapping, records, clock, reqs,
                 resp, feed_cursor>>

InitBoundary == NoStore /\ call = None

NextBoundary ==
    \E req \in BoundaryRequests, fault \in Faults : BoundaryCall(req, fault)

SpecBoundary == InitBoundary /\ [][NextBoundary]_vars

AtBoundary == call # None /\ Val(call).fn = "boundary"

\* a call during which an exception was raised in the computation
ExceptionRaised ==
    /\ AtBoundary
    /\ \/ Val(call).fault # "none"
       \/ IngestAttempts(Val(call).req.payload) = None

\* nothing propagated, and when the exception hit this boundary's own
\* computation the answer is the safe default with an error marker
SafeDefault(outcome, hit) ==
    /\ outcome.raised = ""
    /\ hit => /\ outcome.threat_level = "low"
              /\ outcome.mitigations = <<>>
              /\ outcome.error # ""

\* C20: an unexpected exception raised during rule or impact computation
\* never propagates to the caller: the boundary returns a safe default
\* decision with threat level low, no mitigations and an evaluation-error
\* marker; for evaluate of engine/evaluate.py, defend of api/defend.py and
\* defend of api/main.py.
C20_FailSafe ==
    ExceptionRaised =>
        /\ SafeDefault(Val(call).engine,
                       Val(call).fault \in {"rules", "unpack"})
        /\ SafeDefault(Val(call).defend, Val(call).fault # "none")
        /\ SafeDefault(Val(call).main,
                       \/ Val(call).fault \in {"rules", "unpack"}
                       \/ IngestAttempts(Val(call).req.payload) = None)

\* a count that is no number makes api/main.py raise with no fault injected
C20_MainRaisesOnBadCount ==
    /\ AtBoundary
    /\ Val(call).fault = "none"
    /\ Get(Val(call).req.payload, "attempts") = JStr("abc")
    /\ Val(call).main.raised = "ValueError"
    /\ Val(call).defend.raised = ""

\* an exception inside the rule computation leaves all three boundaries
C20_RulesFaultPropagates ==
    (AtBoundary /\ Val(call).fault = "rules")
        => /\ Val(call).engine.raised # ""
           /\ Val(call).defend.raised # ""
           /\ Val(call).main.raised # ""

\* the one guarded site: a result of the wrong shape in engine/evaluate.py
C20_EngineUnpackGuarded ==
    (AtBoundary /\ Val(call).fault = "unpack")
        => /\ Val(call).engine.raised = ""
           /\ Val(call).engine.threat_level = "low"
           /\ Val(call).engine.mitigations = <<>>
           /\ Val(call).engine.error # ""

\* the gating band of a pair of impacts, one being the value of 1.0 in the
\* unit of the pair
Band(service_impact, user_impact, one) ==
    IF service_impact * 10 < 4 * one /\ user_impact * 10 < 4 * one
    THEN "allow"
    ELSE IF service_impact * 10 < 7 * one /\ user_impact * 10 < 7 * one
    THEN "require_approval"
    ELSE "reject"

\* C21: gating_decision is allow exactly when service_impact and
\* user_impact are both below 0.4, require_approval exactly when it is not
\* allow and both are below 0.7, and reject otherwise, so it depends on
\* the pair of impacts alone; for the TieD of _apply_doctrine (hundredths)
\* and the estimate of estimate_impact (thousandths).
C21_GatingByBands ==
    /\ Gated
           => Val(call).defend.tie_d.gating_decision
                  = Band(Val(call).defend.tie_d.service_impact,
                         Val(call).defend.tie_d.user_impact, 100)
    /\ Returned
           => Val(call).engine.explain.tie_d.gating_decision
                  = Band(Val(call).engine.explain.tie_d.service_impact,
                         Val(call).engine.explain.tie_d.user_impact, 1000)

\* _apply_doctrine asks for approval at impacts 0.35 and 0.20, and allows
\* the same impacts for another persona
C21_ApprovalBelowBand ==
    /\ Restricted
    /\ Val(call).defend.tie_d.service_impact = 35
    /\ Val(call).defend.tie_d.user_impact = 20
    /\ Val(call).defend.tie_d.gating_decision = "require_approval"
    /\ _apply_doctrine(Some("sentinel"), Val(call).classification,
                       Val(call).proposed).tie_d.gating_decision = "allow"

\* the part of C21 about estimate_impact, with the bands written out in
\* thousandths
C21_EstimatorBands ==
    Returned =>
        LET t == Val(call).engine.explain.tie_d
        IN /\ t.gating_decision = "allow"
                  <=> (t.service_impact < 400 /\ t.user_impact < 400)
           /\ t.gating_decision = "require_approval"
                  <=> (/\ ~(t.service_impact < 400 /\ t.user_impact < 400)
                       /\ t.service_impact < 700 /\ t.user_impact < 700)
           /\ t.gating_decision \in {"allow", "require_approval", "reject"}

(***************************************************************************)
(* The failed-auth count of a payload                                      *)
(***************************************************************************)
\* engine/rules.py evaluate_rules: the count it reads from the payload
EngineFailedAuths(payload) ==
    _coerce_int(Or(Get(payload, "failed_auths"),
                Or(Get(payload, "failed_attempts"),
                Or(Get(payload, "attempts"),
                Or(Get(payload, "count"),
                Or(Get(payload, "failures"),
                Or(Get(payload, "num_failures"),
                Or(Get(payload, "failed_logins"), JInt("0")))))))))

\* the alias keys a payload of the model may carry, in payload order, and
\* the values one may hold: zero, two counts, text that is no number
CountKeys == <<"failed_auths", "attempts", "count", "failures">>
CountValues == {JInt("0"), JInt("5"), JInt("12"), JStr("abc")}

\* the payload that holds the keys of CountKeys chosen by f (None: absent)
RECURSIVE CountPayloadFrom(_, _)
CountPayloadFrom(f, i) ==
    IF i > Len(CountKeys) THEN <<>>
    ELSE (IF f[i] = None THEN <<>> ELSE <<Pair(CountKeys[i], Val(f[i]))>>)
         \o CountPayloadFrom(f, i + 1)

CountPayloads ==
    {CountPayloadFrom(f, 1) :
        f \in [1..Len(CountKeys) -> {None} \cup {Some(v) : v \in CountValues}]}

\* the count of one payload read by _normalize_failed_auths and by
\* evaluate_rules
NormalizeCall(payload) ==
    /\ call = None
    /\ call' = Some([fn |-> "count", payload |-> payload,
                     defend |-> _normalize_failed_auths(payload),
                     engine |-> EngineFailedAuths(payload)])
    /\ UNCHANGED <<change_requests, agent, buckets, mapping, records, clock, reqs,
                 resp, feed_cursor>>

InitCount == NoStore /\ call = None

NextCount == \E payload \in CountPayloads : NormalizeCall(payload)

SpecCount == InitCount /\ [][NextCount]_vars

Counted == call # None /\ Val(call).fn = "count"

\* the order of the alias keys C22 states
AliasOrder == <<"failed_auths", "failed_attempts", "attempts", "count",
                "failures", "num_failures", "failed_logins">>

HasKey(payload, k) == \E i \in 1..Len(payload) : payload[i].k = k

\* the value of the first key of AliasOrder present in the payload, as an
\* integer: 0 when none is present or the value is no number
FirstPresentCount(payload) ==
    LET present == {i \in 1..Len(AliasOrder) : HasKey(payload, AliasOrder[i])}
    IN IF present = {} THEN 0
       ELSE LET first == CHOOSE i \in present : \A j \in present : i <= j
                v == Get(payload, AliasOrder[first])
            IN IF v.t = "int" THEN NumeralValue(v.v)
               ELSE IF v.t = "str" /\ IsNumeral(v.v) THEN NumeralValue(v.v)
               ELSE 0

\* C22: the failed-auth count of an event is the value of the first alias
\* key present in the payload, in the order failed_auths, failed_attempts,
\* attempts, count, failures, num_failures, failed_logins, coerced to an
\* integer, and 0 when no alias is present or the value cannot be parsed;
\* for evaluate_rules of engine/rules.py and _normalize_failed_auths of
\* api/defend.py.
C22_FirstAliasPresentWins ==
    Counted =>
        /\ Val(call).engine = FirstPresentCount(Val(call).payload)
        /\ Val(call).defend = FirstPresentCount(Val(call).payload)

\* failed_auths: 0 is present and first, and the count read is that of a
\* later alias
C22_ZeroFallsThrough ==
    /\ Counted
    /\ Val(call).payload = <<Pair("failed_auths", JInt("0")),
                             Pair("attempts", JInt("12"))>>
    /\ Val(call).engine = 12
    /\ Val(call).defend = 12

\* what both functions do compute when all values are falsy or when
\* failed_auths holds a truthy value
C22_FirstTruthyWins ==
    Counted =>
        /\ (\A i \in 1..Len(Val(call).payload) :
                ~Truthy(Val(call).payload[i].v))
               => (Val(call).engine = 0 /\ Val(call).defend = 0)
        /\ Truthy(Get(Val(call).payload, "failed_auths"))
               => /\ Val(call).engine
                        = FirstPresentCount(Val(call).payload)
                  /\ Val(call).defend
                        = FirstPresentCount(Val(call).payload)

(***************************************************************************)
(* Governance change requests (api/governance.py)                          *)
(***************************************************************************)
MaxChanges == 2
MaxApprovals == 3

\* the approvers a request may name: the two required ones and another
Approvers == {"security-lead", "ciso", "analyst"}

\* the ids a request may name: those of the stored changes and one more;
\* change i has the id the i-th uuid4 gave it
ChangeIds == 1..(MaxChanges + 1)

\* POST /governance/changes
create_change(now) ==
    /\ Len(change_requests) < MaxChanges
    /\ change_requests' = Append(change_requests,
                    [change_id |-> Len(change_requests) + 1,
                     proposed_at |-> now,
                     requires_approval_from |-> <<"security-lead", "ciso">>,
                     approvals |-> <<>>,
                     status |-> "pending",
                     deployed_at |-> None])
    /\ call' = Some([fn |-> "create_change", status_code |-> 200,
                     change_id |-> Len(change_requests) + 1])
    /\ UNCHANGED <<agent, buckets, mapping, records, clock, reqs, resp,
                   feed_cursor>>

\* POST /governance/changes/{change_id}/approve
approve_change(change_id, approver, now) ==
    IF change_id \notin 1..Len(change_requests)
    THEN /\ call' = Some([fn |-> "approve_change", status_code |-> 404,
                          change_id |-> change_id])
         /\ UNCHANGED <<change_requests, agent, buckets, mapping, records, clock,
                        reqs, resp, feed_cursor>>
    ELSE /\ Len(change_requests[change_id].approvals) < MaxApprovals
         /\ LET change == change_requests[change_id]
                approvals == Append(change.approvals,
                                    [approver |-> approver,
                                     approved_at |-> now])
                enough == Len(approvals) >= Len(change.requires_approval_from)
            IN change_requests' = [change_requests EXCEPT ![change_id] =
                   [change EXCEPT
                       !.approvals = approvals,
                       !.status = IF enough THEN "deployed" ELSE "pending",
                       !.deployed_at = IF enough THEN Some(now) ELSE @]]
         /\ call' = Some([fn |-> "approve_change", status_code |-> 200,
                          change_id |-> change_id])
         /\ UNCHANGED <<agent, buckets, mapping, records, clock, reqs, resp,
                        feed_cursor>>

InitGovernance == NoStore /\ call = None

NextGovernance ==
    \E now \in 1..MaxClock :
        \/ create_change(now)
        \/ \E change_id \in ChangeIds, approver \in Approvers :
               approve_change(change_id, approver, now)

SpecGovernance == InitGovernance /\ [][NextGovernance]_vars

\* the approvers who approved the change
ApprovedBy(change) ==
    {change.approvals[i].approver : i \in 1..Len(change.approvals)}

AllApproved(change) ==
    Range(change.requires_approval_from) \subseteq ApprovedBy(change)

\* C23: a change request is pending from its creation until every approver
\* listed in requires_approval_from (security-lead and ciso) has approved
\* it, and is deployed, with deployed_at set, from then on.
C23_DeployedWhenAllApproved ==
    \A i \in 1..Len(change_requests) :
        /\ change_requests[i].status = "deployed" <=> AllApproved(change_requests[i])
        /\ change_requests[i].status = "deployed" <=> change_requests[i].deployed_at # None
        /\ change_requests[i].status \in {"pending", "deployed"}

\* a change deployed by two approvals of security-lead, ciso never asked
C23_DeployedWithoutCiso ==
    \E i \in 1..Len(change_requests) :
        /\ change_requests[i].status = "deployed"
        /\ change_requests[i].deployed_at # None
        /\ ApprovedBy(change_requests[i]) = {"security-lead"}

\* the parts of C23 that hold: a deployed change never returns to pending,
\* and approving an unknown id answers 404 and change_requests no request
C23_DeployedStays ==
    [][\A i \in 1..Len(change_requests) :
           change_requests[i].status = "deployed" => change_requests'[i].status = "deployed"]_vars

C23_UnknownIdRejected ==
    [][(call' # call /\ call' # None /\ Val(call').fn = "approve_change")
           => IF Val(call').change_id \in 1..Len(change_requests)
              THEN Val(call').status_code = 200
              ELSE Val(call').status_code = 404 /\ change_requests' = change_requests]_vars

\* what the code counts: approvals, whoever gave them
C23_DeployedByCount ==
    \A i \in 1..Len(change_requests) :
        change_requests[i].status = "deployed"
            <=> Len(change_requests[i].approvals)
                    >= Len(change_requests[i].requires_approval_from)

\* C24: for the same proposed mitigations and classification, the number
\* of block_ip mitigations returned under persona sentinel is never smaller
\* than the number returned under persona guardian; for _apply_doctrine of
\* api/defend.py and apply_roe of engine/roe.py.
C24_SentinelNotStricter ==
    Gated =>
        /\ CountBlockIp(Val(call).by_persona["sentinel"].defend.mitigations)
               >= CountBlockIp(Val(call).by_persona["guardian"].defend.mitigations)
        /\ Val(call).classification # None
               => CountBlockIp(Val(Val(call).by_persona["sentinel"].roe).mitigations)
                      >= CountBlockIp(Val(Val(call).by_persona["guardian"].roe).mitigations)

\* three block_ip actions under SECRET: guardian returns one, sentinel all
C24_SentinelReturnsMore ==
    /\ Gated
    /\ Val(call).classification = Some("SECRET")
    /\ CountBlockIp(Val(call).proposed) = 3
    /\ CountBlockIp(Val(call).by_persona["guardian"].defend.mitigations) = 1
    /\ CountBlockIp(Val(call).by_persona["sentinel"].defend.mitigations) = 3
    /\ CountBlockIp(Val(Val(call).by_persona["guardian"].roe).mitigations) = 1
    /\ CountBlockIp(Val(Val(call).by_persona["sentinel"].roe).mitigations) = 3

\* C25: for every event, the id the agent computes with
\* deterministic_event_id equals the id the server computes with _event_id
\* for the same envelope; for the agents of agent/agent_main.py and of
\* agent/app/agent_main.py.
C25_AgentIdIsServerId ==
    (call # None /\ Val(call).fn = "_event_id")
        => /\ Val(call).agent_a = Val(call).id_a
           /\ Val(call).app_a = Val(call).id_a

\* the agent hashes the envelope without its event type, the server with it
C25_EventTypeOnlyInServerId ==
    /\ call # None
    /\ Val(call).fn = "_event_id"
    /\ Val(call).a.payload = PayloadDns
    /\ Val(call).a.tenant_id = "t1"
    /\ Val(call).a.timestamp = 1
    /\ Val(call).agent_a
           = <<"sha256", "t1|edge1|1970-01-01T00:00:01Z|{\"event_type\":\"dns\"}">>
    /\ Val(call).id_a
           = <<"sha256", "t1|edge1|1970-01-01T00:00:01Z|dns|{\"event_type\":\"dns\"}">>

\* no event of the model gets the server's id from either agent
C25_AgentIdNeverServerId ==
    (call # None /\ Val(call).fn = "_event_id")
        => /\ Val(call).agent_a # Val(call).id_a
           /\ Val(call).app_a # Val(call).id_a

(***************************************************************************)
(* The agents: the disk queue and sender_loop of agent/agent_main.py, and  *)
(* the sqlite queue and run of agent/app/agent_main.py.  A behaviour runs  *)
(* one of the two; the state of the other stays as it starts.              *)
(***************************************************************************)
MaxEvents == 3
MaxAttempts == 7

\* FG_AGENT_SEND_INTERVAL_MS, FG_AGENT_MAX_BACKOFF_MS (defaults) and
\* FG_AGENT_MAX_BATCH, FG_AGENT_BATCH_SIZE, FG_AGENT_MAX_QUEUE (set to 2)
SEND_INTERVAL_MS == 500
MAX_BACKOFF_MS == 10000
MAX_BATCH == 2
batch_size == 2
max_queue == 2

\* what post_json returns as status: the core's status code, 0 for URLError
Statuses == {200, 202, 401, 500, 0}

\* the variant that moves a file to sent whatever the answer
SendPending_any_status(batch, status, i, acc) ==
    [acc EXCEPT !.sent = {batch[j] : j \in 1..Len(batch)},
                !.sent_any = Len(batch) > 0]

\* the loop over the batch of sender_loop from file i on; status[i] is the
\* answer to the request carrying batch[i]; sent and dead are the files
\* moved so far.  A transient status breaks the loop.
RECURSIVE SendPending(_, _, _, _)
SendPending(batch, status, i, acc) ==
    IF i > Len(batch) THEN acc
    ELSE IF status[i] \in {200, 201, 202}
    THEN SendPending(batch, status, i + 1,
                     [acc EXCEPT !.sent = @ \cup {batch[i]},
                                 !.sent_any = TRUE])
    ELSE IF status[i] \in {401, 403}
    THEN SendPending(batch, status, i + 1,
                     [acc EXCEPT !.dead = @ \cup {batch[i]}])
    ELSE acc

Head2(q, n) == SubSeq(q, 1, IF Len(q) < n THEN Len(q) ELSE n)

\* producer_loop: DiskQueue.enqueue of one more event; a file is named by
\* its event id and a nonce, here by the number of the event
enqueue ==
    /\ agent.kind = "disk"
    /\ agent.produced < MaxEvents
    /\ agent' = [agent EXCEPT !.produced = @ + 1,
                              !.pending = Append(@, agent.produced + 1),
                              !.last = None]
    /\ UNCHANGED <<change_requests, buckets, call, mapping, records, clock,
                   reqs, resp, feed_cursor>>

\* one pass of the while loop of sender_loop: the batch, the posts, the
\* backoff it then sleeps
sender_loop(status) ==
    /\ agent.kind = "disk"
    /\ LET batch == Head2(agent.pending, MAX_BATCH)
           r == SendPending(batch, status, 1,
                            [sent |-> {}, dead |-> {}, sent_any |-> FALSE])
       IN agent' = [agent EXCEPT
              !.pending = SelectSeq(@, LAMBDA e : e \notin r.sent \cup r.dead),
              !.sent = @ \cup r.sent,
              !.dead = @ \cup r.dead,
              !.backoff_ms = IF r.sent_any THEN SEND_INTERVAL_MS
                             ELSE Min((@ * 3) \div 2, MAX_BACKOFF_MS),
              !.last = Some([batch |-> batch, status |-> status,
                             ok |-> FALSE, delay |-> 0])]
    /\ UNCHANGED <<change_requests, buckets, call, mapping, records, clock,
                   reqs, resp, feed_cursor>>

\* 2 ** n
RECURSIVE Pow2(_)
Pow2(n) == IF n = 0 THEN 1 ELSE 2 * Pow2(n - 1)

\* run: queue_put of the event collect_stub builds; its event id is a hash
\* over the 5-second bucket of the instant (the bucket of the event before
\* or the next one), and the queue holds an id once.  Instants are kept
\* relative to now: next_attempt_at is the time left until the row is due.
queue_put(same_bucket) ==
    /\ agent.kind = "app"
    /\ agent.running
    /\ agent.produced < MaxEvents
    /\ LET event_id == IF same_bucket THEN agent.now ELSE agent.now + 1
           dup == \E i \in 1..Len(agent.queue) :
                     agent.queue[i].event_id = event_id
       IN agent' = [agent EXCEPT
              !.produced = @ + 1,
              !.now = event_id,
              !.queue = IF Len(@) < max_queue /\ ~dup
                        THEN Append(@, [id |-> agent.produced + 1,
                                        event_id |-> event_id,
                                        attempts |-> 0,
                                        next_attempt_at |-> 0])
                        ELSE @,
              !.last = None]
    /\ UNCHANGED <<change_requests, buckets, call, mapping, records, clock,
                   reqs, resp, feed_cursor>>

\* the rows queue_pop_batch selects
Due(queue) ==
    Head2(SelectSeq(queue, LAMBDA r : r.next_attempt_at <= 0), batch_size)

MaxOf(S) == CHOOSE x \in S : \A y \in S : y <= x

\* queue_backoff(ids, attempts), the jitter being j halves of the base
BackoffDelay(attempts, j) ==
    LET base == Min(60, Pow2(Min(attempts, 6)))
    IN base + (j * base) \div 2

\* run: one flush of the batch; outcome is the status send_batch got, or
\* "exception" when httpx raises, which ends run
flush(outcome, j) ==
    /\ agent.kind = "app"
    /\ agent.running
    /\ LET batch == Due(agent.queue)
           ids == {batch[i].id : i \in 1..Len(batch)}
       IN /\ batch # <<>>
          /\ \A i \in 1..Len(batch) : batch[i].attempts < MaxAttempts
          /\ IF outcome = "exception"
             THEN agent' = [agent EXCEPT !.running = FALSE,
                                !.last = Some([batch |-> batch,
                                               status |-> outcome,
                                               ok |-> FALSE, delay |-> 0])]
             ELSE IF outcome = "200"
             THEN agent' = [agent EXCEPT
                      !.queue = SelectSeq(@, LAMBDA r : r.id \notin ids),
                      !.last = Some([batch |-> batch, status |-> outcome,
                                     ok |-> TRUE, delay |-> 0])]
             ELSE LET max_attempts ==
                          MaxOf({batch[i].attempts : i \in 1..Len(batch)})
                      delay == BackoffDelay(max_attempts + 1, j)
                  IN agent' = [agent EXCEPT
                         !.queue = [i \in 1..Len(@) |->
                                      IF @[i].id \in ids
                                      THEN [@[i] EXCEPT
                                              !.attempts = @ + 1,
                                              !.next_attempt_at = delay]
                                      ELSE @[i]],
                         !.last = Some([batch |-> batch, status |-> outcome,
                                        ok |-> FALSE, delay |-> delay])]
    /\ UNCHANGED <<change_requests, buckets, call, mapping, records, clock,
                   reqs, resp, feed_cursor>>

\* time passes until a delayed row is due
sleep ==
    /\ agent.kind = "app"
    /\ agent.running
    /\ \E i \in 1..Len(agent.queue) :
          /\ agent.queue[i].next_attempt_at > 0
          /\ agent' = [agent EXCEPT
                 !.queue = [k \in 1..Len(@) |->
                              [@[k] EXCEPT !.next_attempt_at =
                                  Max(0, @ - agent.queue[i].next_attempt_at)]],
                 !.last = None]
    /\ UNCHANGED <<change_requests, buckets, call, mapping, records, clock,
                   reqs, resp, feed_cursor>>

AgentKinds == {"disk", "app"}

InitAgent ==
    /\ change_requests = <<>>
    /\ buckets = None
    /\ mapping = "legacy"
    /\ records = <<>>
    /\ clock = 1
    /\ reqs = [w \in Workers |-> Idle]
    /\ resp = None
    /\ feed_cursor = 0
    /\ call = None
    /\ \E kind \in AgentKinds :
          agent = [kind |-> kind, produced |-> 0, last |-> None,
                   pending |-> <<>>, sent |-> {}, dead |-> {},
                   backoff_ms |-> SEND_INTERVAL_MS,
                   queue |-> <<>>, now |-> 0, running |-> TRUE]

NextAgent ==
    \/ enqueue
    \/ \E status \in [1..MAX_BATCH -> Statuses] : sender_loop(status)
    \/ \E same_bucket \in BOOLEAN : queue_put(same_bucket)
    \/ \E outcome \in {"200", "401", "500", "exception"}, j \in {0, 1} :
          flush(outcome, j)
    \/ sleep

SpecAgent == InitAgent /\ [][NextAgent]_vars

\* the request carrying batch[i] was posted in the pass: no request before
\* it got a transient answer
Posted(last, i) ==
    \A j \in 1..(i - 1) : last.status[j] \in {200, 201, 202, 401, 403}

\* some request of the pass was answered with success
AnySuccess(last) ==
    \E i \in 1..Len(last.batch) :
        Posted(last, i) /\ last.status[i] \in {200, 201, 202}

\* the disk queue over one step: a file leaves pending only to sent after
\* a success or to dead after 401/403; the backoff stays within
\* [SEND_INTERVAL_MS, MAX_BACKOFF_MS], is the base after a pass with a
\* success and otherwise grows by half up to the cap
DiskStep ==
    /\ \A e \in Range(agent.pending) :
          e \notin Range(agent'.pending)
              => /\ agent'.last # None
                 /\ \E i \in 1..Len(Val(agent'.last).batch) :
                       /\ Val(agent'.last).batch[i] = e
                       /\ Posted(Val(agent'.last), i)
                       /\ \/ /\ Val(agent'.last).status[i] \in {200, 201, 202}
                             /\ e \in agent'.sent
                          \/ /\ Val(agent'.last).status[i] \in {401, 403}
                             /\ e \in agent'.dead
    /\ agent'.backoff_ms >= SEND_INTERVAL_MS
    /\ agent'.backoff_ms <= MAX_BACKOFF_MS
    /\ agent'.last # None
          => IF AnySuccess(Val(agent'.last))
             THEN agent'.backoff_ms = SEND_INTERVAL_MS
             ELSE /\ agent'.backoff_ms >= agent.backoff_ms
                  /\ \/ agent'.backoff_ms = MAX_BACKOFF_MS
                     \/ 2 * agent'.backoff_ms > 2 * agent.backoff_ms + 499

\* the rows with the ids of the batch, as the queue holds them
RowsOf(queue, id) == {queue[i] : i \in {k \in 1..Len(queue) : queue[k].id = id}}

\* the sqlite queue over one step: a row is deleted only after the batch
\* carrying it was answered 200; after another answer every row of the
\* batch is still queued, with one more attempt and a delay of 2^attempts
\* seconds capped at 60, plus at most half of it
AppStep ==
    /\ \A i \in 1..Len(agent.queue) :
          RowsOf(agent'.queue, agent.queue[i].id) = {}
              => /\ agent'.last # None
                 /\ Val(agent'.last).status = "200"
                 /\ agent.queue[i] \in Range(Val(agent'.last).batch)
    /\ (agent'.last # None /\ Val(agent'.last).status # "200")
          => \A r \in Range(Val(agent'.last).batch) :
                \E q \in RowsOf(agent'.queue, r.id) :
                   Val(agent'.last).status = "exception"
                   \/ LET m == MaxOf({b.attempts :
                                      b \in Range(Val(agent'.last).batch)}) + 1
                      IN /\ q.attempts = r.attempts + 1
                         /\ q.next_attempt_at = Val(agent'.last).delay
                         /\ q.next_attempt_at >= 2
                         /\ q.next_attempt_at <= 90
                         /\ q.next_attempt_at
                                >= Min(60, Pow2(Min(r.attempts + 1, 6)))
                         /\ 2 * q.next_attempt_at
                                <= 3 * Min(60, Pow2(Min(m, 6)))

RECURSIVE Desc(_)
\* order_by(DecisionRecord.id.desc())
Desc(S) == IF S = {} THEN <<>> ELSE <<MaxOf(S)>> \o Desc(S \ {MaxOf(S)})

\* the rows the filters of the query keep; since_id and threat_level are
\* None when the parameter is absent
FeedMatching(recs, since_id, threat_level) ==
    {i \in 1..Len(recs) :
        /\ since_id # None => recs[i].id > Val(since_id)
        /\ threat_level # None => recs[i].threat_level = Val(threat_level)}

\* feed_live: the `limit` rows with the highest ids, and the highest id seen
\* (max_id starts at `since_id or 0`)
feed_live(recs, limit, since_id, threat_level) ==
    LET matching == FeedMatching(recs, since_id, threat_level)
        rows == {i \in matching :
                    Cardinality({j \in matching : recs[j].id > recs[i].id})
                        < limit}
        ids == {recs[i].id : i \in rows}
    IN [items |-> Desc(ids),
        next_since_id |->
            MaxOf(ids \cup {IF since_id = None THEN 0 ELSE Val(since_id)})]

FeedStarts == {0, 1}

FeedLevels == {None, Some("high")}

\* one pass of gen(): poll with last_id, then last_id = resp.next_since_id
feed_stream ==
    /\ call # None
    /\ LET c == Val(call)
           r == feed_live(records, c.limit, c.last_id, c.threat_level)
       IN /\ call' = Some([c EXCEPT
                 !.last_id = Some(r.next_since_id),
                 !.items = r.items,
                 !.delivered = [id \in 1..MaxRecords |->
                                   c.delivered[id]
                                   + IF id \in Range(r.items) THEN 1 ELSE 0]])
          /\ feed_cursor' = r.next_since_id
    /\ UNCHANGED <<change_requests, agent, buckets, mapping, records, clock,
                   reqs, resp>>

InitFeed ==
    /\ mapping \in Mappings
    /\ records = <<>>
    /\ clock = 1
    /\ reqs = [w \in Workers |-> Idle]
    /\ resp = None
    /\ change_requests = <<>>
    /\ agent = None
    /\ buckets = None
    /\ \E limit \in 1..MaxFeedLimit, since_id \in FeedStarts,
          threat_level \in FeedLevels :
         /\ feed_cursor = since_id
         /\ call = Some([limit |-> limit, threat_level |-> threat_level,
                         since_id |-> since_id, last_id |-> Some(since_id),
                         items |-> <<>>,
                         delivered |-> [id \in 1..MaxRecords |-> 0]])

NextFeed ==
    \/ \E req \in IngestRequests : Ingest(req)
    \/ \E count \in 1..MaxEmitCount, seed \in EmitSeeds :
          dev_emit(count, seed, Some("t1"))
    \/ feed_stream

SpecFeed == InitFeed /\ [][NextFeed]_vars

\* the stored records the stream was asked for
FeedWanted ==
    {records[i].id : i \in FeedMatching(records, Some(Val(call).since_id),
                                        Val(call).threat_level)}

\* every wanted record the cursor has passed was delivered once, and no
\* record was delivered twice or before the cursor reached it
DeliveredOnce ==
    \A id \in FeedWanted :
        Val(call).delivered[id]
            = IF id <= Val(Val(call).last_id) THEN 1 ELSE 0

\* C27: polling the live feed with each response's next_since_id as the next
\* since_id, next_since_id never decreases and every stored record after
\* the starting since_id that matches the filters is delivered in exactly
\* one batch, none twice and none skipped, also when more than `limit`
\* records were stored between two polls.
C27_ExactlyOnce ==
    [][/\ Val(Val(call').last_id) >= Val(Val(call).last_id)
       /\ DeliveredOnce']_vars

\* the state form of the delivery part of C27
C27_NoneSkippedOrRepeated == DeliveredOnce

\* two records were stored between two polls with limit 1: the cursor is
\* past both and the older one was never delivered
C27_OlderRecordSkipped ==
    /\ Val(call).limit = 1
    /\ Val(call).threat_level = None
    /\ Val(call).since_id = 0
    /\ Len(records) >= 2
    /\ Val(call).last_id = Some(2)
    /\ Val(call).items = <<2>>
    /\ Val(call).delivered[1] = 0
    /\ Val(call).delivered[2] = 1

\* the cursor never decreases
C27_CursorMonotone ==
    [][Val(Val(call').last_id) >= Val(Val(call).last_id)]_vars

\* no record is delivered twice, and none that does not match
C27_NeverTwice ==
    /\ \A id \in 1..MaxRecords : Val(call).delivered[id] <= 1
    /\ \A id \in 1..MaxRecords :
          Val(call).delivered[id] = 1 => id \in FeedWanted

\* a poll that finds at most `limit` new matching records delivers them all
C27_CompleteWithinLimit ==
    [][(/\ DeliveredOnce
        /\ Cardinality(FeedMatching(records, Val(call).last_id,
                                    Val(call).threat_level))
              <= Val(call).limit)
          => DeliveredOnce']_vars


(***************************************************************************)
(* The audit chain in the shared decisions table                           *)
(***************************************************************************)
\* the stored records that carry a chain hash: api/defend.py is the only
\* writer that sets one
ChainedRecords == {i \in 1..Len(records) : records[i].chain_hash # None}

GenesisRecords == {i \in ChainedRecords : records[i].prev_hash = None}

\* the prev_hash of every chained record that has one is the chain_hash of
\* a stored record
PrevHashStored ==
    \A i \in ChainedRecords \ GenesisRecords :
        \E j \in 1..Len(records) :
            /\ records[j].chain_hash # None
            /\ records[j].chain_hash = records[i].prev_hash

C28_PrevHashIsStored == PrevHashStored

\* a chained record has a null prev_hash only if it is the first record,
\* the record before it carries no chain hash, or its writer read the last
\* record before a record in between was committed
C28_GenesisCauses ==
    \A i \in GenesisRecords :
        \/ i = 1
        \/ records[i - 1].chain_hash = None
        \/ \E j \in 1..(i - 1) : j \in GenesisRecords

\* the chain writer alone, one request at a time, starts one chain
C28_SequentialOneGenesis == Cardinality(GenesisRecords) <= 1


(***************************************************************************)
(* _event_id of api/defend.py on envelopes whose tenant_id and source may  *)
(* contain the "|" that joins the fields: TelemetryInput declares both as  *)
(* plain str                                                               *)
(***************************************************************************)
SepTenants == {"t1", "t1|edge"}

SepSources == {"edge1", "edge|1", "1"}

SepEnvelopes ==
    [tenant_id : SepTenants, source : SepSources, timestamp : Timestamps,
     payload : Payloads]

InitSep == NoStore /\ call = None

NextSep == \E a \in SepEnvelopes, b \in SepEnvelopes : EventIdCall(a, b)

SpecSep == InitSep /\ [][NextSep]_vars

\* C29: two envelopes that differ in tenant_id, source, timestamp, event
\* type or feature map never get the same event id (the hash taken as
\* injective), also when tenant_id, source or event type contain the
\* separator that joins the fields.
C29_DistinctEventsDistinctIds ==
    (call # None /\ Val(call).fn = "_event_id")
        => (~SameLogicalEvent(Val(call).a, Val(call).b)
                => Val(call).id_a # Val(call).id_b)

\* tenant "t1" with source "edge|1" and tenant "t1|edge" with source "1"
\* got one id
C29_SeparatorCollision ==
    /\ call # None
    /\ Val(call).fn = "_event_id"
    /\ Val(call).a.tenant_id = "t1"
    /\ Val(call).a.source = "edge|1"
    /\ Val(call).b.tenant_id = "t1|edge"
    /\ Val(call).b.source = "1"
    /\ Val(call).id_a = Val(call).id_b

\* on envelopes whose tenant_id and source contain no separator, distinct
\* events get distinct ids
C29_InjectiveWithoutSeparator ==
    (/\ call # None
     /\ Val(call).fn = "_event_id"
     /\ {Val(call).a, Val(call).b} \subseteq Envelopes)
        => (Val(call).id_a = Val(call).id_b
                => SameLogicalEvent(Val(call).a, Val(call).b))

\* with the separator, two envelopes get one id only if they agree on
\* timestamp, event type and feature map and their tenant_id and source
\* join to the same text
C29_CollisionOnlyByJoin ==
    (/\ call # None
     /\ Val(call).fn = "_event_id"
     /\ Val(call).id_a = Val(call).id_b)
        => /\ Val(call).a.timestamp = Val(call).b.timestamp
           /\ Val(call).a.payload = Val(call).b.payload
           /\ Val(call).a.tenant_id \o "|" \o Val(call).a.source
                 = Val(call).b.tenant_id \o "|" \o Val(call).b.source


(***************************************************************************)
(* The rate limiter of api/ratelimit.py: one token bucket per key, held    *)
(* in Redis and updated by one atomic script.  Times are whole seconds;    *)
(* the runs are shorter than the 60 seconds after which a key can expire.  *)
(* `buckets` is [cfg, store, last, admitted, clean, n].                    *)
(***************************************************************************)
MaxNow == 2
MaxRequests == 4
MaxRate == 2
MaxBurst == 1

RateKeys == {"tenant:t1", "tenant:t2"}

Instants == 0..MaxNow

\* load_config: rate_per_sec > 0, burst >= 0
RLConfigs == [rate_per_sec : 1..MaxRate, burst : 0..MaxBurst,
              fail_open : BOOLEAN]

\* at least one token, plus the burst
_capacity(cfg) == cfg.burst + Max(1, cfg.rate_per_sec)

\* math.ceil(a / b) for a >= 0, b > 0
CeilDiv(a, b) == (a + b - 1) \div b

\* the script: data is the stored hash of the key (None when the key does
\* not exist); the result carries the reply and the hash it stores
_LUA_TOKEN_BUCKET(data, now, rate, capacity, cost) ==
    LET tokens0 == IF data = None THEN capacity ELSE Val(data).tokens
        ts0 == IF data = None THEN now ELSE Val(data).ts
        delta == IF now - ts0 < 0 THEN 0 ELSE now - ts0
        tokens1 == Min(capacity, tokens0 + delta * rate)
        allowed == tokens1 >= cost
        tokens2 == IF allowed THEN tokens1 - cost ELSE tokens1
        reset == IF allowed THEN 0 ELSE Max(1, CeilDiv(cost - tokens2, rate))
    IN [allowed |-> allowed, limit |-> capacity,
        remaining |-> IF allowed THEN tokens2 ELSE 0, reset |-> reset,
        available |-> tokens1,
        data |-> Some([tokens |-> tokens2, ts |-> now])]

\* _allow_redis: cost is 1.0
_allow_redis(store, key, cfg, now) ==
    _LUA_TOKEN_BUCKET(store[key], now, cfg.rate_per_sec, _capacity(cfg), 1)

\* the dependency on a limited path: `now` is the caller's time.time(),
\* redis_ok is FALSE when the call to Redis raises
rate_limit_guard(key, now, redis_ok) ==
    /\ buckets # None
    /\ Val(buckets).n < MaxRequests
    /\ LET b == Val(buckets)
           r == _allow_redis(b.store, key, b.cfg, now)
           outcome == IF ~redis_ok
                      THEN IF b.cfg.fail_open THEN "pass" ELSE "503"
                      ELSE IF r.allowed THEN "pass" ELSE "429"
           in_order == b.store[key] = None \/ now >= Val(b.store[key]).ts
       IN buckets' = Some([b EXCEPT
              !.n = @ + 1,
              !.store[key] = IF redis_ok THEN r.data ELSE @,
              !.last = Some([key |-> key, now |-> now,
                             redis_ok |-> redis_ok, outcome |-> outcome,
                             before |-> b.store[key],
                             available |-> IF redis_ok THEN Some(r.available)
                                           ELSE None,
                             remaining |-> IF redis_ok THEN Some(r.remaining)
                                           ELSE None,
                             reset |-> IF redis_ok THEN Some(r.reset)
                                       ELSE None]),
              !.admitted[key][now] = @ + IF outcome = "pass" THEN 1 ELSE 0,
              !.clean[key] = @ /\ redis_ok /\ in_order])
    /\ UNCHANGED <<change_requests, agent, call, mapping, records, clock,
                   reqs, resp, feed_cursor>>

InitRate ==
    /\ mapping = "legacy"
    /\ records = <<>>
    /\ clock = 1
    /\ reqs = [w \in Workers |-> Idle]
    /\ resp = None
    /\ feed_cursor = 0
    /\ call = None
    /\ change_requests = <<>>
    /\ agent = None
    /\ \E cfg \in RLConfigs :
         buckets = Some([cfg |-> cfg,
                         store |-> [k \in RateKeys |-> None],
                         last |-> None,
                         admitted |-> [k \in RateKeys |->
                                          [t \in Instants |-> 0]],
                         clean |-> [k \in RateKeys |-> TRUE],
                         n |-> 0])

NextRate ==
    \E key \in RateKeys, now \in Instants, redis_ok \in BOOLEAN :
        rate_limit_guard(key, now, redis_ok)

SpecRate == InitRate /\ [][NextRate]_vars

RECURSIVE SumFrom(_, _, _)
SumFrom(f, a, b) == IF a > b THEN 0 ELSE f[a] + SumFrom(f, a + 1, b)

\* the stored token count of every key is within [0, capacity]
TokensInRange ==
    \A k \in RateKeys :
        Val(buckets).store[k] # None
            => /\ Val(Val(buckets).store[k]).tokens >= 0
               /\ Val(Val(buckets).store[k]).tokens
                     <= _capacity(Val(buckets).cfg)

\* the last request passed only with a token available after the refill,
\* and the key stores one token less
AdmittedPaysCost ==
    (Val(buckets).last # None /\ Val(Val(buckets).last).outcome = "pass")
        => LET l == Val(Val(buckets).last)
           IN /\ l.available # None
              /\ Val(l.available) >= 1
              /\ Val(Val(buckets).store[l.key]).tokens = Val(l.available) - 1

\* the requests of key k admitted with a timestamp in [t1, t2] are at most
\* capacity + rate * (t2 - t1)
WindowBound(k) ==
    \A t1 \in Instants, t2 \in Instants :
        t1 <= t2
            => SumFrom(Val(buckets).admitted[k], t1, t2)
                  <= _capacity(Val(buckets).cfg)
                     + Val(buckets).cfg.rate_per_sec * (t2 - t1)

\* C30: for each key, after any sequence of requests and whatever the order
\* of the timestamps the callers supply, the stored token count stays in
\* [0, capacity], a request is admitted only if at least `cost` tokens are
\* available after the refill and then consumes exactly `cost`, and the
\* requests admitted in any window of length T are at most
\* capacity + rate * T.
C30_TokenBucket ==
    /\ TokensInRange
    /\ AdmittedPaysCost
    /\ \A k \in RateKeys : WindowBound(k)

\* capacity 1, rate 1, Redis answering every call: timestamps 2, 0, 2 admit
\* two requests at instant 2
C30_RefilledTwice ==
    /\ _capacity(Val(buckets).cfg) = 1
    /\ Val(buckets).cfg.rate_per_sec = 1
    /\ Val(buckets).n = 3
    /\ \E k \in RateKeys :
         /\ Val(buckets).admitted[k][2] = 2
         /\ Val(buckets).admitted[k][0] = 0
         /\ Val(Val(buckets).last).key = k
         /\ Val(Val(buckets).last).redis_ok
         /\ Val(Val(buckets).last).before = Some([tokens |-> 0, ts |-> 0])
         /\ Val(Val(buckets).last).outcome = "pass"

\* the token count stays in [0, capacity] whatever the timestamps
C30_TokensInRange == TokensInRange

\* a request the bucket answered is admitted only by paying one token
C30_BucketAdmitsByCost ==
    (Val(buckets).last # None /\ Val(Val(buckets).last).redis_ok)
        => AdmittedPaysCost

\* for a key whose timestamps never went backwards and whose calls Redis
\* all answered, the window bound holds
C30_WindowBoundInOrder ==
    \A k \in RateKeys : Val(buckets).clean[k] => WindowBound(k)

\* with fail_open off, a request is never admitted without the bucket
C30_FailClosed ==
    (/\ ~Val(buckets).cfg.fail_open
     /\ Val(buckets).last # None
     /\ ~Val(Val(buckets).last).redis_ok)
        => Val(Val(buckets).last).outcome = "503"

====
